---- MODULE Spec2Model ----
(***************************************************************************)
(* readyq: a file-backed task tracker (src/readyq.py).                     *)
(*                                                                         *)
(* The store is one JSONL file (one task record per line) guarded by a     *)
(* sidecar lock file.  Commands load the file without the lock, mutate the *)
(* in-memory list and write it back under the lock (db_save_tasks), or     *)
(* append one line under the lock (db_append_task).                        *)
(*                                                                         *)
(* Abstractions (each keeps the behaviours of the code it stands for):     *)
(*  - a task id is a short sequence of characters drawn from Ids, so that  *)
(*    prefix matching (str.startswith) is computed, not assumed;           *)
(*  - uuid4 is a choice among the ids never issued before;                 *)
(*  - the file is a sequence of lines of equal size; a line is a task      *)
(*    record or JunkLine (bytes json.loads rejects);                       *)
(*  - time.time() is the variable now, which advances in steps of the      *)
(*    lock timeout: every comparison db_lock makes is against timeout or   *)
(*    2 * timeout;                                                         *)
(*  - description, created_at, updated_at and sessions are not part of the *)
(*    record the commands work on: no command modelled here reads them;    *)
(*  - where the claim is about what is written for a record, the file is   *)
(*    a sequence of characters and the record carries its free-text fields *)
(*    (SpecCodec, SpecLoad).                                               *)
(***************************************************************************)
EXTENDS Integers, Sequences, FiniteSets, TLC

---------------------------------------------------------------------------
(* Bounds and universes                                                    *)

NumProcs == 2
MaxTicks == 3
MaxCmds == 4
MaxText == 2
MaxLines == 3
MaxLogs == 3

Procs == 1..NumProcs

\* db_lock's default timeout (seconds), used by db_save_tasks and db_append_task
DefaultTimeout == 5

Ids == {<<"a", "a">>, <<"a", "b">>, <<"b", "a">>}

\* what a caller may type as an id: every prefix of an id (the empty one
\* included) and one string that matches nothing
Prefixes == {SubSeq(i, 1, n) : i \in Ids, n \in 0..2} \cup {<<"c">>}

Statuses == {"open", "in_progress", "blocked", "done"}

None == "none"

---------------------------------------------------------------------------
(* Python list and string helpers                                          *)

\* x in seq
Contains(seq, x) == \E i \in DOMAIN seq : seq[i] = x

\* the least / the greatest element of a set of indices; 0 when it is empty
MinOf(m) == IF m = {} THEN 0 ELSE CHOOSE i \in m : \A j \in m : i <= j
MaxOf(m) == IF m = {} THEN 0 ELSE CHOOSE i \in m : \A j \in m : j <= i

\* seq without its element at index i
DropAt(seq, i) == SubSeq(seq, 1, i - 1) \o SubSeq(seq, i + 1, Len(seq))

\* list.remove(x), guarded by "x in list": drops the first occurrence only
RemoveFirst(seq, x) ==
    IF ~Contains(seq, x) THEN seq
    ELSE DropAt(seq, MinOf({i \in DOMAIN seq : seq[i] = x}))

\* id.startswith(pre)
StartsWith(id, pre) ==
    Len(pre) <= Len(id) /\ SubSeq(id, 1, Len(pre)) = pre

\* next((t for t in tasks if t['id'].startswith(pre)), None), as an index (0: None)
FirstMatch(tasks, pre) ==
    MinOf({i \in DOMAIN tasks : StartsWith(tasks[i].id, pre)})

\* {t['id']: t for t in tasks}.get(id), as an index (0: None); a later
\* record with the same id replaces an earlier one in the dict
DictGet(tasks, id) == MaxOf({i \in DOMAIN tasks : tasks[i].id = id})

---------------------------------------------------------------------------
(* The store file                                                          *)

JunkLine == [junk |-> TRUE]

IsTask(line) == "id" \in DOMAIN line

\* db_load_tasks: the records of the lines that parse, in file order
db_load_tasks(f) == SelectSeq(f, IsTask)

\* a write of one line at line offset pos of a file opened without O_APPEND:
\* it replaces the line there, extends the file, or leaves a hole of NUL
\* bytes when the file was truncated below pos by another writer
WriteAt(f, pos, line) ==
    IF pos < Len(f) THEN [f EXCEPT ![pos + 1] = line]
    ELSE f \o [i \in 1..(pos - Len(f)) |-> JunkLine] \o <<line>>

---------------------------------------------------------------------------
(* The store file, character by character                                  *)
(*                                                                         *)
(* The same file as a sequence of characters.  A character is a newline,   *)
(* a double quote, a backslash, a letter, or a piece of text that neither  *)
(* format takes apart: a heading, a run of three dashes, text in angle     *)
(* brackets with an entity; BadByte is a byte that is not UTF-8.  A text   *)
(* record carries the two free-text fields: description and the log of     *)
(* each session.                                                           *)

NL == "\n"
Quote == "\""
Backslash == "\\"
BadByte == "0xFF"

\* ''.join(lines) with a newline between the lines
RECURSIVE Join(_)
Join(lines) ==
    IF lines = <<>> THEN <<>>
    ELSE IF Len(lines) = 1 THEN lines[1]
    ELSE lines[1] \o <<NL>> \o Join(Tail(lines))

\* the pieces of two halves of a text put together: the last piece of the
\* first half continues in the first piece of the second
SplitGlue(a, b) ==
    SubSeq(a, 1, Len(a) - 1) \o <<a[Len(a)] \o b[1]>> \o Tail(b)

\* s.split('\n'): the pieces between the newlines, the last one included
RECURSIVE str_split(_)
str_split(s) ==
    IF s = <<>> THEN <<<<>>>>
    ELSE IF Len(s) = 1 THEN (IF s[1] = NL THEN <<<<>>, <<>>>> ELSE <<s>>)
    ELSE SplitGlue(str_split(SubSeq(s, 1, Len(s) \div 2)),
                   str_split(SubSeq(s, Len(s) \div 2 + 1, Len(s))))

\* for line in f: the lines of the file; what follows the last newline is
\* a line only if it is not empty
FileLines(s) ==
    SubSeq(str_split(s), 1,
           IF str_split(s)[Len(str_split(s))] = <<>>
           THEN Len(str_split(s)) - 1 ELSE Len(str_split(s)))

TextTask(id, status, description, sessions) ==
    [id |-> id, status |-> status, description |-> description,
     sessions |-> sessions]

\* json.dumps that writes a newline inside a string as it is
json_escape_raw(c) ==
    IF c \in {Quote, Backslash} THEN <<Backslash, c>> ELSE <<c>>

\* json.dumps, one character of a string
json_escape(c) ==
    IF c = NL THEN <<Backslash, "n">>
    ELSE IF c \in {Quote, Backslash} THEN <<Backslash, c>>
    ELSE <<c>>

RECURSIVE json_escape_all(_)
json_escape_all(text) ==
    IF text = <<>> THEN <<>>
    ELSE json_escape(Head(text)) \o json_escape_all(Tail(text))

\* json.dumps of a string
json_string(text) == <<Quote>> \o json_escape_all(text) \o <<Quote>>

RECURSIVE json_strings(_)
json_strings(texts) ==
    IF texts = <<>> THEN <<>>
    ELSE json_string(Head(texts)) \o json_strings(Tail(texts))

\* json.dumps(task): the record on one line
json_dumps(task) ==
    <<"{">> \o task.id \o <<task.status>> \o json_string(task.description)
            \o <<"[">> \o json_strings(task.sessions) \o <<"]", "}">>

\* json.loads raises JSONDecodeError
JSONDecodeError == [ok |-> FALSE, val |-> <<>>, next |-> 0]

\* json.loads inside a string, after its opening quote
RECURSIVE json_scan_string(_, _, _)
json_scan_string(s, i, acc) ==
    IF i > Len(s) THEN JSONDecodeError
    ELSE IF s[i] = Quote THEN [ok |-> TRUE, val |-> acc, next |-> i + 1]
    ELSE IF s[i] = Backslash
         THEN IF i + 1 > Len(s) THEN JSONDecodeError
              ELSE IF s[i + 1] = "n"
                   THEN json_scan_string(s, i + 2, Append(acc, NL))
              ELSE IF s[i + 1] \in {Quote, Backslash}
                   THEN json_scan_string(s, i + 2, Append(acc, s[i + 1]))
              ELSE JSONDecodeError
    ELSE json_scan_string(s, i + 1, Append(acc, s[i]))

\* json.loads at the start of a string
json_parse_string(s, i) ==
    IF i <= Len(s) /\ s[i] = Quote THEN json_scan_string(s, i + 1, <<>>)
    ELSE JSONDecodeError

\* json.loads inside a list of strings
RECURSIVE json_parse_strings(_, _, _)
RECURSIVE json_parse_more(_, _, _)
json_parse_strings(s, i, acc) ==
    IF i > Len(s) THEN JSONDecodeError
    ELSE IF s[i] = "]" THEN [ok |-> TRUE, val |-> acc, next |-> i + 1]
    ELSE json_parse_more(s, json_parse_string(s, i), acc)

json_parse_more(s, r, acc) ==
    IF r.ok THEN json_parse_strings(s, r.next, Append(acc, r.val))
    ELSE JSONDecodeError

json_loads_sessions(line, description, l) ==
    IF l.ok /\ l.next = Len(line) /\ line[l.next] = "}"
    THEN [ok |-> TRUE,
          val |-> TextTask(<<line[2], line[3]>>, line[4], description, l.val),
          next |-> l.next + 1]
    ELSE JSONDecodeError

json_loads_description(line, d) ==
    IF d.ok /\ d.next <= Len(line) /\ line[d.next] = "["
    THEN json_loads_sessions(line, d.val,
                             json_parse_strings(line, d.next + 1, <<>>))
    ELSE JSONDecodeError

\* json.loads(line)
json_loads(line) ==
    IF Len(line) >= 5 /\ line[1] = "{" /\ <<line[2], line[3]>> \in Ids
       /\ line[4] \in Statuses
    THEN json_loads_description(line, json_parse_string(line, 5))
    ELSE JSONDecodeError

\* db_save_tasks: what it writes into the file it opened with 'w'
RECURSIVE db_save_text(_)
db_save_text(tasks) ==
    IF tasks = <<>> THEN <<>>
    ELSE json_dumps(Head(tasks)) \o <<NL>> \o db_save_text(Tail(tasks))

\* db_load_tasks, the loop: tasks.append(json.loads(line)) unless
\* json.loads raised JSONDecodeError
RECURSIVE db_load_lines(_)
db_load_lines(lines) ==
    IF lines = <<>> THEN <<>>
    ELSE (IF json_loads(Head(lines)).ok
          THEN <<json_loads(Head(lines)).val>> ELSE <<>>)
         \o db_load_lines(Tail(lines))

\* db_load_tasks: the file is read as UTF-8 (a byte that is not raises
\* UnicodeDecodeError, which nothing catches)
db_load_text(bytes) ==
    IF \E i \in DOMAIN bytes : bytes[i] = BadByte
    THEN [ok |-> FALSE, val |-> <<>>]
    ELSE [ok |-> TRUE, val |-> db_load_lines(FileLines(bytes))]

---------------------------------------------------------------------------
(* The document format                                                     *)
(*                                                                         *)
(* One section per task, the sections separated by a rule marker on a line *)
(* of its own; a section has labeled lines for the id, a checklist for the *)
(* status, and the description and each session log between a start and an *)
(* end marker.                                                             *)

RuleMarker == "---"

\* free text between its start and end markers
Wrapped(start, text, end) ==
    <<start, NL>> \o text \o <<NL, end, NL>>

\* the status as a checklist with one box ticked
Checklist(status) ==
    <<IF status = "open" THEN "[x]" ELSE "[ ]", "open", NL,
      IF status = "in_progress" THEN "[x]" ELSE "[ ]", "in_progress", NL,
      IF status = "blocked" THEN "[x]" ELSE "[ ]", "blocked", NL,
      IF status = "done" THEN "[x]" ELSE "[ ]", "done", NL>>

RECURSIVE SessionLogs(_)
SessionLogs(sessions) ==
    IF sessions = <<>> THEN <<>>
    ELSE <<"### ts", NL>> \o Wrapped("<log>", Head(sessions), "</log>")
         \o SessionLogs(Tail(sessions))

\* the section of one task
generate_markdown_task(task) ==
    <<"# Task:", NL, "**ID**:">> \o task.id \o <<NL, "## Status", NL>>
    \o Checklist(task.status)
    \o <<"## Description", NL>>
    \o Wrapped("<description>", task.description, "</description>")
    \o (IF task.sessions = <<>> THEN <<>>
        ELSE <<"## Session Logs", NL>> \o SessionLogs(task.sessions))

\* the document: the sections with a rule marker line between them
RECURSIVE md_save_tasks(_)
md_save_tasks(tasks) ==
    IF tasks = <<>> THEN <<>>
    ELSE IF Len(tasks) = 1 THEN generate_markdown_task(tasks[1])
    ELSE generate_markdown_task(tasks[1]) \o <<NL, RuleMarker, NL, NL>>
         \o md_save_tasks(Tail(tasks))

EmptyTask == TextTask(<<>>, "open", <<>>, <<>>)

\* the reader's state.  mode: "none" before a section's title, "task"
\* inside a section, "description" and "log" between the markers of a free
\* text; cur: the task being read; acc: the lines of the free text being
\* read; done: the tasks read
SectionStart == [mode |-> "none", cur |-> EmptyTask, acc |-> <<>>, done |-> <<>>]

\* the section read so far becomes a task
SectionClose(st) ==
    IF st.mode = "none" THEN st.done ELSE Append(st.done, st.cur)

\* the document ends; a free text whose end marker is missing runs to the
\* end of the document
SectionEnd(st) ==
    IF st.mode = "description"
    THEN Append(st.done, [st.cur EXCEPT !.description = Join(st.acc)])
    ELSE IF st.mode = "log"
    THEN Append(st.done, [st.cur EXCEPT !.sessions = Append(@, Join(st.acc))])
    ELSE SectionClose(st)

\* one line read between the markers of a free text: no line is structure
\* there but the end marker
SectionText(st, line) ==
    IF st.mode = "description" /\ line = <<"</description>">>
    THEN [st EXCEPT !.mode = "task", !.acc = <<>>,
                    !.cur = [@ EXCEPT !.description = Join(st.acc)]]
    ELSE IF st.mode = "log" /\ line = <<"</log>">>
    THEN [st EXCEPT !.mode = "task", !.acc = <<>>,
                    !.cur = [@ EXCEPT !.sessions = Append(@, Join(st.acc))]]
    ELSE [st EXCEPT !.acc = Append(@, line)]

\* one line read outside free text
SectionLine(st, line) ==
    IF line = <<RuleMarker>>
    THEN [mode |-> "none", cur |-> EmptyTask, acc |-> <<>>,
          done |-> SectionClose(st)]
    ELSE IF line = <<>> THEN st
    ELSE IF line[1] = "# Task:"
    THEN [mode |-> "task", cur |-> EmptyTask, acc |-> <<>>,
          done |-> SectionClose(st)]
    ELSE IF st.mode = "none" THEN st
    ELSE IF line[1] = "**ID**:" THEN [st EXCEPT !.cur.id = Tail(line)]
    ELSE IF line[1] = "[x]" /\ Len(line) = 2
    THEN [st EXCEPT !.cur.status = line[2]]
    ELSE IF line = <<"<description>">>
    THEN [st EXCEPT !.mode = "description", !.acc = <<>>]
    ELSE IF line = <<"<log>">> THEN [st EXCEPT !.mode = "log", !.acc = <<>>]
    ELSE st

\* the document line by line, from line i on
RECURSIVE parse_task_section(_, _, _)
parse_task_section(L, i, st) ==
    IF i > Len(L) THEN SectionEnd(st)
    ELSE IF st.mode \in {"description", "log"}
    THEN parse_task_section(L, i + 1, SectionText(st, L[i]))
    ELSE parse_task_section(L, i + 1, SectionLine(st, L[i]))

\* the tasks of a document
md_load_tasks(bytes) ==
    parse_task_section(str_split(bytes), 1, SectionStart)

---------------------------------------------------------------------------
(* Migration from the line format to the document format                  *)
(*                                                                         *)
(* Three paths: the line-format file, the document-format file and the     *)
(* backup; each exists or not and holds characters.                        *)

Absent == [exists |-> FALSE, data |-> <<>>]

Present(data) == [exists |-> TRUE, data |-> data]

\* a migration that does not look whether the document file is there
auto_migrate_always(paths) ==
    IF paths.jsonl.exists
    THEN [paths |-> [jsonl |-> Absent,
                     md |-> Present(md_save_tasks(db_load_text(paths.jsonl.data).val)),
                     backup |-> paths.jsonl],
          migrated |-> TRUE]
    ELSE [paths |-> paths, migrated |-> FALSE]

\* auto_migrate_jsonl: when the line-format file exists and the document
\* file does not, the records of the former are written as a document and
\* the former is renamed to the backup; else nothing is done
auto_migrate_jsonl(paths) ==
    IF paths.jsonl.exists /\ ~paths.md.exists
    THEN [paths |-> [jsonl |-> Absent,
                     md |-> Present(md_save_tasks(db_load_text(paths.jsonl.data).val)),
                     backup |-> paths.jsonl],
          migrated |-> TRUE]
    ELSE [paths |-> paths, migrated |-> FALSE]

---------------------------------------------------------------------------
(* Task records and the in-memory operations of the commands               *)

NewTask(id, title) ==
    [id |-> id, title |-> title, status |-> "open",
     blocks |-> <<>>, blocked_by |-> <<>>]

\* find_task taking the first match, as next(..., None) does
find_task_first(pre, tasks) ==
    IF pre = <<>> THEN 0 ELSE FirstMatch(tasks, pre)

\* find_task, on the tasks it loaded: the index of the only task whose id
\* starts with pre, else 0 (no match, several matches, empty prefix)
find_task(pre, tasks) ==
    IF pre = <<>>
       \/ Cardinality({i \in DOMAIN tasks : StartsWith(tasks[i].id, pre)}) # 1
    THEN 0
    ELSE FirstMatch(tasks, pre)

\* cmd_new recording the blocker in the new task only
AttachBlockerOneSide(s, j) ==
    [tasks |-> s.tasks,
     n |-> [s.n EXCEPT !.blocked_by = Append(@, s.tasks[j].id)]]

\* cmd_new, one entry of --blocked-by that matched task j; n is the new
\* task, not yet in tasks
AttachBlocker(s, j) ==
    [tasks |-> [s.tasks EXCEPT ![j].blocks = Append(@, s.n.id)],
     n |-> [s.n EXCEPT !.blocked_by = Append(@, s.tasks[j].id)]]

\* cmd_new, one entry of --blocked-by
NewBlockedBy(s, pre) ==
    IF FirstMatch(s.tasks, pre) = 0 THEN s
    ELSE AttachBlocker(s, FirstMatch(s.tasks, pre))

RECURSIVE NewBlockedByAll(_, _)
NewBlockedByAll(s, pres) ==
    IF pres = <<>> THEN s
    ELSE NewBlockedByAll(NewBlockedBy(s, Head(pres)), Tail(pres))

\* tasks.append(new_task)
AppendNew(s) == Append(s.tasks, s.n)

\* cmd_new with --blocked-by: the collection handed to db_save_tasks
NewWithBlockers(tasks, id, title, pres) ==
    AppendNew(NewBlockedByAll(
        [tasks |-> tasks,
         n |-> [NewTask(id, title) EXCEPT !.status = "blocked"]],
        pres))

\* the append to tasks[k]['blocks'] left out
PutBlocksSkip(tasks, k, id) == tasks

\* the append to tasks[k]['blocks'] made without looking for the id
PutBlocksAlways(tasks, k, id) == [tasks EXCEPT ![k].blocks = Append(@, id)]

\* if id not in tasks[k]['blocks']: append it
PutBlocks(tasks, k, id) ==
    IF Contains(tasks[k].blocks, id) THEN tasks
    ELSE [tasks EXCEPT ![k].blocks = Append(@, id)]

\* the append to tasks[j]['blocked_by'] blocking the task whatever its status
PutBlockedByAnyStatus(tasks, j, id) ==
    IF Contains(tasks[j].blocked_by, id) THEN tasks
    ELSE [tasks EXCEPT
            ![j].blocked_by = Append(@, id),
            ![j].status = "blocked"]

\* if id not in tasks[j]['blocked_by']: append it, and the task becomes
\* blocked unless it is done or blocked
PutBlockedBy(tasks, j, id) ==
    IF Contains(tasks[j].blocked_by, id) THEN tasks
    ELSE [tasks EXCEPT
            ![j].blocked_by = Append(@, id),
            ![j].status = IF @ \in {"done", "blocked"} THEN @ ELSE "blocked"]

\* if id in tasks[k]['blocks']: remove it
DropBlocks(tasks, k, id) ==
    [tasks EXCEPT ![k].blocks = RemoveFirst(@, id)]

\* if id in tasks[j]['blocked_by']: remove it, and the task becomes open
\* if that leaves no blocker and it is blocked
DropBlockedBy(tasks, j, id) ==
    IF ~Contains(tasks[j].blocked_by, id) THEN tasks
    ELSE [tasks EXCEPT
            ![j].blocked_by = RemoveFirst(@, id),
            ![j].status = IF RemoveFirst(tasks[j].blocked_by, id) = <<>>
                             /\ @ = "blocked"
                          THEN "open" ELSE @]

\* cmd_update --add-blocks, an entry that matched task j: task k blocks j
AddBlocks(tasks, k, j) ==
    PutBlockedBy(PutBlocks(tasks, k, tasks[j].id), j, tasks[k].id)

\* cmd_update --add-blocked-by, an entry that matched task j: j blocks task k
AddBlockedBy(tasks, k, j) ==
    PutBlocks(PutBlockedBy(tasks, k, tasks[j].id), j, tasks[k].id)

\* cmd_update --remove-blocks, an entry that matched task j
RemoveBlocks(tasks, k, j) ==
    DropBlockedBy(DropBlocks(tasks, k, tasks[j].id), j, tasks[k].id)

\* cmd_update --remove-blocked-by, an entry that matched task j
RemoveBlockedBy(tasks, k, j) ==
    DropBlocks(DropBlockedBy(tasks, k, tasks[j].id), j, tasks[k].id)

\* one entry of one of the four lists, which matched task j
EdgeStep(tasks, k, j, which) ==
    CASE which = "add_blocks" -> AddBlocks(tasks, k, j)
      [] which = "add_blocked_by" -> AddBlockedBy(tasks, k, j)
      [] which = "remove_blocks" -> RemoveBlocks(tasks, k, j)
      [] OTHER -> RemoveBlockedBy(tasks, k, j)

\* one entry of one of the four lists: an entry that matches no task is
\* ignored with a warning
EdgeEntry(s, k, pre, which) ==
    IF FirstMatch(s.tasks, pre) = 0 THEN s
    ELSE [tasks |-> EdgeStep(s.tasks, k, FirstMatch(s.tasks, pre), which),
          updated |-> TRUE]

\* the loop over the entries of one comma-separated list
RECURSIVE EdgeLoop(_, _, _, _)
EdgeLoop(s, k, pres, which) ==
    IF pres = <<>> THEN s
    ELSE EdgeLoop(EdgeEntry(s, k, Head(pres), which), k, Tail(pres), which)

\* the unblocking pass removing the blocker without looking at what is left
UnblockOnly(tasks, k, j) ==
    IF j = 0 THEN tasks
    ELSE [tasks EXCEPT ![j].blocked_by = RemoveFirst(@, tasks[k].id)]

\* the unblocking pass of cmd_update, for one id of task['blocks'] found at
\* index j by the dict lookup (0: no such task)
Unblock(tasks, k, j) ==
    IF j = 0 THEN tasks ELSE DropBlockedBy(tasks, j, tasks[k].id)

\* for blocked_task_id in task['blocks'], from position i on
RECURSIVE Cascade(_, _, _)
Cascade(tasks, k, i) ==
    IF i > Len(tasks[k].blocks) THEN tasks
    ELSE Cascade(Unblock(tasks, k, DictGet(tasks, tasks[k].blocks[i])),
                 k, i + 1)

\* the status option treating done as final
SetStatusTerminal(tasks, k, status) ==
    IF tasks[k].status = "done" THEN tasks
    ELSE IF status = "done"
    THEN Cascade([tasks EXCEPT ![k].status = status], k, 1)
    ELSE [tasks EXCEPT ![k].status = status]

\* cmd_update --status, a valid status: set it, and run the unblocking pass
\* when it is done
SetStatus(tasks, k, status) ==
    IF status = "done"
    THEN Cascade([tasks EXCEPT ![k].status = status], k, 1)
    ELSE [tasks EXCEPT ![k].status = status]

\* cmd_update --title
SetTitle(s, k, title) ==
    IF title = None THEN s
    ELSE [tasks |-> [s.tasks EXCEPT ![k].title = title], updated |-> TRUE]

\* cmd_update, the status option, which comes last: rejected is the early
\* return on an invalid status
Finish(s, k, status) ==
    IF status = None
    THEN [tasks |-> s.tasks, updated |-> s.updated, rejected |-> FALSE]
    ELSE IF status \notin Statuses
    THEN [tasks |-> s.tasks, updated |-> s.updated, rejected |-> TRUE]
    ELSE [tasks |-> SetStatus(s.tasks, k, status), updated |-> TRUE,
          rejected |-> FALSE]

\* delete_log: <<>> when the option is absent, <<i>> for --delete-log i
NoArgs ==
    [title |-> None, delete_log |-> <<>>, log |-> None,
     add_blocks |-> <<>>, add_blocked_by |-> <<>>,
     remove_blocks |-> <<>>, remove_blocked_by |-> <<>>, status |-> None]

\* cmd_update --delete-log: the index is not one of the task's sessions
InvalidLogIndex(tasks, k, dl) ==
    dl # <<>> /\ (dl[1] < 0 \/ dl[1] >= Len(tasks[k].sessions))

\* the pop taking the index for a position counted from 1
DeleteLogFromOne(s, k, dl) ==
    IF dl = <<>> THEN s
    ELSE [tasks |-> [s.tasks EXCEPT ![k].sessions = DropAt(@, dl[1])],
          updated |-> TRUE]

\* task['sessions'].pop(log_index)
DeleteLog(s, k, dl) ==
    IF dl = <<>> THEN s
    ELSE [tasks |-> [s.tasks EXCEPT ![k].sessions = DropAt(@, dl[1] + 1)],
          updated |-> TRUE]

\* cmd_update --log: an empty text is no log
AddLog(s, k, log, timestamp) ==
    IF log = None \/ log = "" THEN s
    ELSE [tasks |-> [s.tasks EXCEPT ![k].sessions =
                        Append(@, [timestamp |-> timestamp, log |-> log])],
          updated |-> TRUE]

\* cmd_update, the edge options and the status option
UpdateEdgesStatus(s, k, args) ==
    Finish(
      EdgeLoop(
        EdgeLoop(
          EdgeLoop(
            EdgeLoop(s, k, args.add_blocks, "add_blocks"),
            k, args.add_blocked_by, "add_blocked_by"),
          k, args.remove_blocks, "remove_blocks"),
        k, args.remove_blocked_by, "remove_blocked_by"),
      k, args.status)

\* cmd_update, the early return on an invalid log index
LogRejected(s) ==
    [tasks |-> s.tasks, updated |-> s.updated, rejected |-> TRUE]

\* cmd_update after find_task found task k: the options in the order the
\* code handles them
UpdateTasks(tasks, k, args, timestamp) ==
    IF InvalidLogIndex(tasks, k, args.delete_log)
    THEN LogRejected(SetTitle([tasks |-> tasks, updated |-> FALSE], k, args.title))
    ELSE UpdateEdgesStatus(
           AddLog(
             DeleteLog(
               SetTitle([tasks |-> tasks, updated |-> FALSE], k, args.title),
               k, args.delete_log),
             k, args.log, timestamp),
           k, args)

\* the clean-up opening every blocked task that is left without a blocker
StripOtherAlways(t, task_id) ==
    [t EXCEPT !.blocks = RemoveFirst(@, task_id),
              !.blocked_by = RemoveFirst(@, task_id),
              !.status = IF RemoveFirst(t.blocked_by, task_id) = <<>>
                            /\ @ = "blocked"
                         THEN "open" ELSE @]

\* cmd_delete, the clean-up of one other task
StripOther(t, task_id) ==
    [t EXCEPT !.blocks = RemoveFirst(@, task_id),
              !.blocked_by = RemoveFirst(@, task_id),
              !.status = IF Contains(t.blocked_by, task_id)
                            /\ RemoveFirst(t.blocked_by, task_id) = <<>>
                            /\ @ = "blocked"
                         THEN "open" ELSE @]

\* tasks = [t for t in tasks if t['id'] != task_id]
WithoutId(tasks, task_id) ==
    LET keep(t) == t.id # task_id IN SelectSeq(tasks, keep)

\* cmd_delete after find_task found the task with this id: the collection
\* it saves
DeleteTasks(tasks, task_id) ==
    WithoutId([i \in DOMAIN tasks |->
                  IF tasks[i].id = task_id THEN tasks[i]
                  ELSE StripOther(tasks[i], task_id)],
              task_id)

\* is_ready taking a blocker that is not in the store for a finished one
IsReadyMissingDone(tasks, t) ==
    /\ t.status # "done"
    /\ \A i \in DOMAIN t.blocked_by :
          \/ DictGet(tasks, t.blocked_by[i]) = 0
          \/ tasks[DictGet(tasks, t.blocked_by[i])].status = "done"

\* is_ready asking for the status open
IsReadyOpenOnly(tasks, t) ==
    /\ t.status = "open"
    /\ \A i \in DOMAIN t.blocked_by :
          /\ DictGet(tasks, t.blocked_by[i]) # 0
          /\ tasks[DictGet(tasks, t.blocked_by[i])].status = "done"

\* cmd_ready: is_ready of one task
IsReady(tasks, t) ==
    /\ t.status # "done"
    /\ \A i \in DOMAIN t.blocked_by :
          /\ DictGet(tasks, t.blocked_by[i]) # 0
          /\ tasks[DictGet(tasks, t.blocked_by[i])].status = "done"

\* cmd_ready: ready_tasks
ReadyTasks(tasks) ==
    LET ready(t) == IsReady(tasks, t) IN SelectSeq(tasks, ready)

---------------------------------------------------------------------------
(* Cycle detection                                                         *)

NoCycle == [cycle |-> <<>>, visited |-> {}]

RECURSIVE dfs_visit(_, _, _, _)
RECURSIVE dfs_each(_, _, _, _, _)

\* the next blocker is visited unless a cycle was found
dfs_next(T, bl, i, path, r) ==
    IF r.cycle # <<>> THEN r ELSE dfs_each(T, bl, i + 1, path, r.visited)

\* the blockers of a task, from position i on
dfs_each(T, bl, i, path, visited) ==
    IF i > Len(bl) THEN [cycle |-> <<>>, visited |-> visited]
    ELSE dfs_next(T, bl, i, path, dfs_visit(T, bl[i], path, visited))

\* a traversal that takes a task seen before for one that leads to no cycle
dfs_visit_seen_first(T, id, path, visited) ==
    IF id \in visited \/ DictGet(T, id) = 0
    THEN [cycle |-> <<>>, visited |-> visited]
    ELSE dfs_each(T, T[DictGet(T, id)].blocked_by, 1, Append(path, id),
                  visited \cup {id})

\* depth-first traversal over blocked_by: a task met again on the path
\* closes a cycle, which is the path from that task on; a task visited
\* before, or an id with no task, leads nowhere
dfs_visit(T, id, path, visited) ==
    IF Contains(path, id)
    THEN [cycle |-> SubSeq(path, MinOf({n \in DOMAIN path : path[n] = id}),
                           Len(path)),
          visited |-> visited]
    ELSE IF id \in visited \/ DictGet(T, id) = 0
    THEN [cycle |-> <<>>, visited |-> visited]
    ELSE dfs_each(T, T[DictGet(T, id)].blocked_by, 1, Append(path, id),
                  visited \cup {id})

RECURSIVE dfs_from(_, _, _)

dfs_from_next(T, i, r) ==
    IF r.cycle # <<>> THEN r.cycle ELSE dfs_from(T, i + 1, r.visited)

\* the traversal started at each task in turn
dfs_from(T, i, visited) ==
    IF i > Len(T) THEN <<>>
    ELSE dfs_from_next(T, i, dfs_visit(T, T[i].id, <<>>, visited))

\* find_circular_dependencies: the ids of a cycle, or the empty sequence
\* for none
find_circular_dependencies(tasks) == dfs_from(tasks, 1, {})

---------------------------------------------------------------------------
(* State                                                                   *)

VARIABLES
    file,           \* the lines of DB_FILE (a missing file reads as empty)
    lock,           \* DB_FILE + '.lock': exists, mtime, owner (the pid in it)
    now,            \* time.time()
    issued,         \* the ids uuid4 has returned so far
    pc,             \* where each caller is
    op,             \* the command each caller runs
    loaded,         \* what the caller's db_load_tasks returned
    local,          \* the list handed to db_save_tasks / the appended record
    start_time,     \* db_lock: start_time
    lock_acquired,  \* db_lock: lock_acquired
    pos,            \* the caller's offset in the file it opened with 'w'
    outcome,        \* how the command ended
    out,            \* cmd_ready: the ready tasks it reported
    before,         \* history: the records in the file when the caller's
                    \* open(DB_FILE, 'w') truncated it
    file0,          \* history: the file at the start
    ncmds           \* history: the number of commands started

vars == <<file, lock, now, issued, pc, op, loaded, local, start_time,
          lock_acquired, pos, outcome, out, before, file0, ncmds>>

NoLock == [exists |-> FALSE, mtime |-> 0, owner |-> 0]

\* kind: the command; io: how it writes the store; target: the id the
\* command resolved (new: the id it created); status, title: the values
\* update was asked to set
NoOp == [kind |-> "none", io |-> "none", target |-> <<>>,
         status |-> None, title |-> None]

\* the part of the state a command keeps in local variables
locals == <<op, loaded, local, start_time, lock_acquired, pos, outcome, out,
            before>>

\* the state no store content decides
InitRest ==
    /\ lock = NoLock
    /\ now = 0
    /\ pc = [p \in Procs |-> "idle"]
    /\ op = [p \in Procs |-> NoOp]
    /\ loaded = [p \in Procs |-> <<>>]
    /\ start_time = [p \in Procs |-> 0]
    /\ lock_acquired = [p \in Procs |-> FALSE]
    /\ pos = [p \in Procs |-> 0]
    /\ outcome = [p \in Procs |-> "none"]
    /\ out = [p \in Procs |-> <<>>]
    /\ before = [p \in Procs |-> <<>>]
    /\ ncmds = 0

InitWith(f) ==
    /\ InitRest
    /\ file = f
    /\ file0 = f
    /\ issued = {f[i].id : i \in DOMAIN f}
    /\ local = [p \in Procs |-> <<>>]

---------------------------------------------------------------------------
(* Commands: the part that runs before the store is written                *)

\* a caller starts a command: it is idle, or its previous command returned
Start(p, o, tasks) ==
    /\ pc[p] \in {"idle", "done"}
    /\ op' = [op EXCEPT ![p] = o]
    /\ loaded' = [loaded EXCEPT ![p] = tasks]
    /\ lock_acquired' = [lock_acquired EXCEPT ![p] = FALSE]
    /\ pos' = [pos EXCEPT ![p] = 0]
    /\ before' = [before EXCEPT ![p] = <<>>]
    /\ ncmds' = ncmds + 1
    /\ UNCHANGED <<file, lock, now, file0>>

\* the command returns without calling db_save_tasks or db_append_task
Return(p, res) ==
    /\ pc' = [pc EXCEPT ![p] = "done"]
    /\ outcome' = [outcome EXCEPT ![p] = res]
    /\ local' = [local EXCEPT ![p] = <<>>]
    /\ start_time' = [start_time EXCEPT ![p] = 0]

\* the command calls db_save_tasks(tasks) or db_append_task(task): db_lock
\* reads the clock and enters its loop
EnterLock(p, tasks) ==
    /\ pc' = [pc EXCEPT ![p] = "try"]
    /\ outcome' = [outcome EXCEPT ![p] = "none"]
    /\ local' = [local EXCEPT ![p] = tasks]
    /\ start_time' = [start_time EXCEPT ![p] = now]

\* find_task: an empty prefix returns before the file is read
LoadFor(pre) == IF pre = <<>> THEN <<>> ELSE db_load_tasks(file)

\* cmd_new: without --blocked-by the task is appended; with it the whole
\* collection is loaded, changed and saved
cmd_new(p, title, bl) ==
    \E id \in Ids \ issued :
       /\ issued' = issued \cup {id}
       /\ out' = [out EXCEPT ![p] = <<>>]
       /\ IF bl = <<>>
          THEN /\ Start(p, [NoOp EXCEPT !.kind = "new", !.io = "append",
                                        !.target = id], <<>>)
               /\ EnterLock(p, <<NewTask(id, title)>>)
          ELSE /\ Start(p, [NoOp EXCEPT !.kind = "new", !.io = "save",
                                        !.target = id], db_load_tasks(file))
               /\ EnterLock(p, NewWithBlockers(db_load_tasks(file), id, title, bl))

\* the end of cmd_update saving whatever an invalid request had changed
UpdateEndSaveRejected(p, r) ==
    IF ~r.updated THEN Return(p, IF r.rejected THEN "rejected" ELSE "nochange")
    ELSE EnterLock(p, r.tasks)

\* cmd_update once the changes r are computed: return on an invalid status,
\* return when nothing was changed, else save
UpdateEnd(p, r) ==
    IF r.rejected THEN Return(p, "rejected")
    ELSE IF ~r.updated THEN Return(p, "nochange")
    ELSE EnterLock(p, r.tasks)

\* cmd_update once find_task has answered (k = 0: no task)
UpdateFound(p, o, tasks, k, args) ==
    IF k = 0 THEN Start(p, o, tasks) /\ Return(p, "notfound")
    ELSE /\ Start(p, [o EXCEPT !.target = tasks[k].id, !.io = "save"], tasks)
         /\ UpdateEnd(p, UpdateTasks(tasks, k, args, now))

\* cmd_update
cmd_update(p, pre, args) ==
    /\ UNCHANGED issued
    /\ out' = [out EXCEPT ![p] = <<>>]
    /\ UpdateFound(p, [NoOp EXCEPT !.kind = "update", !.status = args.status,
                                   !.title = args.title],
                   LoadFor(pre), find_task(pre, LoadFor(pre)), args)

\* cmd_delete once find_task has answered (k = 0: no task)
DeleteFound(p, o, tasks, k) ==
    IF k = 0 THEN Start(p, o, tasks) /\ Return(p, "notfound")
    ELSE /\ Start(p, [o EXCEPT !.target = tasks[k].id, !.io = "save"], tasks)
         /\ EnterLock(p, DeleteTasks(tasks, tasks[k].id))

\* cmd_delete
cmd_delete(p, pre) ==
    /\ UNCHANGED issued
    /\ out' = [out EXCEPT ![p] = <<>>]
    /\ DeleteFound(p, [NoOp EXCEPT !.kind = "delete"],
                   LoadFor(pre), find_task(pre, LoadFor(pre)))

\* cmd_show once find_task has answered (k = 0: no task): the task shown
ShowFound(p, o, tasks, k) ==
    IF k = 0
    THEN /\ Start(p, o, tasks) /\ Return(p, "notfound")
         /\ out' = [out EXCEPT ![p] = <<>>]
    ELSE /\ Start(p, [o EXCEPT !.target = tasks[k].id], tasks)
         /\ Return(p, "shown")
         /\ out' = [out EXCEPT ![p] = <<tasks[k]>>]

\* cmd_show
cmd_show(p, pre) ==
    /\ UNCHANGED issued
    /\ ShowFound(p, [NoOp EXCEPT !.kind = "show"],
                 LoadFor(pre), find_task(pre, LoadFor(pre)))

\* cmd_ready
cmd_ready(p) ==
    /\ Start(p, [NoOp EXCEPT !.kind = "ready"], db_load_tasks(file))
    /\ Return(p, "listed")
    /\ out' = [out EXCEPT ![p] = ReadyTasks(db_load_tasks(file))]
    /\ UNCHANGED issued

---------------------------------------------------------------------------
(* db_lock                                                                 *)

\* os.open(lock_path, O_CREAT | O_EXCL) succeeds
LockAcquire(p) ==
    /\ pc[p] = "try"
    /\ ~lock.exists
    /\ lock' = [exists |-> TRUE, mtime |-> now, owner |-> p]
    /\ lock_acquired' = [lock_acquired EXCEPT ![p] = TRUE]
    /\ pc' = [pc EXCEPT ![p] = "open"]
    /\ UNCHANGED <<file, now, issued, op, loaded, local, start_time, pos,
                   outcome, out, before, file0, ncmds>>

\* FileExistsError with elapsed >= timeout: go and look at the lock's age
\* (with elapsed < timeout the caller sleeps 50 ms and tries again, which
\* changes nothing but the clock: see Tick)
LockExpired(p) ==
    /\ pc[p] = "try"
    /\ lock.exists
    /\ now - start_time[p] >= DefaultTimeout
    /\ pc' = [pc EXCEPT ![p] = "getmtime"]
    /\ UNCHANGED <<file, lock, now, issued, locals, file0, ncmds>>

\* raise TimeoutError: control goes to the finally block
RaiseTimeout(p) ==
    /\ pc' = [pc EXCEPT ![p] = "finally"]
    /\ outcome' = [outcome EXCEPT ![p] = "timeout"]

\* a lock that is not stale is passed over: the caller goes on into the
\* guarded body without the lock instead of raising TimeoutError
LockCheckStaleEnter(p) ==
    /\ pc[p] = "getmtime"
    /\ IF lock.exists /\ now - lock.mtime > DefaultTimeout * 2
       THEN pc' = [pc EXCEPT ![p] = "remove"]
       ELSE pc' = [pc EXCEPT ![p] = "open"]
    /\ UNCHANGED <<file, lock, now, issued, op, loaded, local, start_time,
                   lock_acquired, pos, outcome, out, before, file0, ncmds>>

\* a lock that is not stale sends the caller back into the loop instead of
\* raising TimeoutError
LockCheckStaleRetry(p) ==
    /\ pc[p] = "getmtime"
    /\ IF lock.exists /\ now - lock.mtime > DefaultTimeout * 2
       THEN pc' = [pc EXCEPT ![p] = "remove"]
       ELSE pc' = [pc EXCEPT ![p] = "try"]
    /\ UNCHANGED <<file, lock, now, issued, op, loaded, local, start_time,
                   lock_acquired, pos, outcome, out, before, file0, ncmds>>

\* lock_age = time.time() - os.path.getmtime(lock_path)
LockCheckStale(p) ==
    /\ pc[p] = "getmtime"
    /\ IF lock.exists /\ now - lock.mtime > DefaultTimeout * 2
       THEN pc' = [pc EXCEPT ![p] = "remove"] /\ UNCHANGED outcome
       ELSE RaiseTimeout(p)
    /\ UNCHANGED <<file, lock, now, issued, op, loaded, local, start_time,
                   lock_acquired, pos, out, before, file0, ncmds>>

\* os.remove(lock_path); continue.  A lock file that is gone by now makes
\* os.remove raise, and the handler falls through to the TimeoutError
LockRemoveStale(p) ==
    /\ pc[p] = "remove"
    /\ IF lock.exists
       THEN /\ lock' = NoLock
            /\ pc' = [pc EXCEPT ![p] = "try"]
            /\ UNCHANGED outcome
       ELSE RaiseTimeout(p) /\ UNCHANGED lock
    /\ UNCHANGED <<file, now, issued, op, loaded, local, start_time,
                   lock_acquired, pos, out, before, file0, ncmds>>

\* the release written after the body instead of in a finally block: an
\* exception in the body skips it
FinallyUnlessError(p) ==
    /\ pc[p] = "finally"
    /\ lock' = IF lock_acquired[p] /\ outcome[p] # "error" THEN NoLock
               ELSE lock
    /\ pc' = [pc EXCEPT ![p] = "done"]
    /\ UNCHANGED <<file, now, issued, locals, file0, ncmds>>

\* finally: if lock_acquired: os.remove(lock_path), whoever's file that is
Finally(p) ==
    /\ pc[p] = "finally"
    /\ lock' = IF lock_acquired[p] THEN NoLock ELSE lock
    /\ pc' = [pc EXCEPT ![p] = "done"]
    /\ UNCHANGED <<file, now, issued, locals, file0, ncmds>>

---------------------------------------------------------------------------
(* The bodies guarded by db_lock                                           *)

\* db_save_tasks: open(DB_FILE, 'w') truncates the file
SaveOpen(p) ==
    /\ pc[p] = "open"
    /\ op[p].io = "save"
    /\ before' = [before EXCEPT ![p] = db_load_tasks(file)]
    /\ file' = <<>>
    /\ pos' = [pos EXCEPT ![p] = 0]
    /\ pc' = [pc EXCEPT ![p] = IF local[p] = <<>> THEN "finally" ELSE "write"]
    /\ outcome' = [outcome EXCEPT ![p] = IF local[p] = <<>> THEN "saved" ELSE @]
    /\ UNCHANGED <<lock, now, issued, op, loaded, local, start_time,
                   lock_acquired, out, file0, ncmds>>

\* db_save_tasks: f.write(json.dumps(task) + '\n') at the caller's offset
SaveWrite(p) ==
    /\ pc[p] = "write"
    /\ file' = WriteAt(file, pos[p], local[p][pos[p] + 1])
    /\ pos' = [pos EXCEPT ![p] = @ + 1]
    /\ pc' = [pc EXCEPT ![p] = IF pos[p] + 1 = Len(local[p])
                               THEN "finally" ELSE "write"]
    /\ outcome' = [outcome EXCEPT ![p] = IF pos[p] + 1 = Len(local[p])
                                         THEN "saved" ELSE @]
    /\ UNCHANGED <<lock, now, issued, op, loaded, local, start_time,
                   lock_acquired, out, before, file0, ncmds>>

\* db_append_task opening the file with 'w': the line replaces the file
AppendWriteTruncate(p) ==
    /\ pc[p] = "open"
    /\ op[p].io = "append"
    /\ file' = <<local[p][1]>>
    /\ pc' = [pc EXCEPT ![p] = "finally"]
    /\ outcome' = [outcome EXCEPT ![p] = "appended"]
    /\ UNCHANGED <<lock, now, issued, op, loaded, local, start_time,
                   lock_acquired, pos, out, before, file0, ncmds>>

\* db_append_task: open(DB_FILE, 'a'); one write of the line at the end of
\* the file (O_APPEND), flushed when the file is closed
AppendWrite(p) ==
    /\ pc[p] = "open"
    /\ op[p].io = "append"
    /\ file' = Append(file, local[p][1])
    /\ pc' = [pc EXCEPT ![p] = "finally"]
    /\ outcome' = [outcome EXCEPT ![p] = "appended"]
    /\ UNCHANGED <<lock, now, issued, op, loaded, local, start_time,
                   lock_acquired, pos, out, before, file0, ncmds>>

\* an exception inside the guarded body (open or write fails): control
\* leaves the with block through db_lock's finally
BodyRaise(p) ==
    /\ pc[p] \in {"open", "write"}
    /\ pc' = [pc EXCEPT ![p] = "finally"]
    /\ outcome' = [outcome EXCEPT ![p] = "error"]
    /\ UNCHANGED <<file, lock, now, issued, op, loaded, local, start_time,
                   lock_acquired, pos, out, before, file0, ncmds>>

\* the process dies inside db_save_tasks, before or after open(DB_FILE, 'w')
\* or between two writes: nothing more runs, db_lock's finally included
Crash(p) ==
    /\ pc[p] \in {"open", "write"}
    /\ op[p].io = "save"
    /\ pc' = [pc EXCEPT ![p] = "crashed"]
    /\ outcome' = [outcome EXCEPT ![p] = "crashed"]
    /\ UNCHANGED <<file, lock, now, issued, op, loaded, local, start_time,
                   lock_acquired, pos, out, before, file0, ncmds>>

---------------------------------------------------------------------------
(* Saving and loading a collection of text records                         *)

\* db_save_tasks(tasks), the file it leaves
LineSave(p) ==
    /\ pc[p] = "idle"
    /\ file' = db_save_text(local[p])
    /\ op' = [op EXCEPT ![p] = [NoOp EXCEPT !.kind = "line", !.io = "save"]]
    /\ pc' = [pc EXCEPT ![p] = "saved"]
    /\ UNCHANGED <<lock, now, issued, loaded, local, start_time,
                   lock_acquired, pos, outcome, out, before, file0, ncmds>>

\* db_load_tasks()
LineLoad(p) ==
    /\ pc[p] \in {"idle", "saved"}
    /\ op[p].kind \in {"none", "line"}
    /\ loaded' = [loaded EXCEPT ![p] = db_load_text(file).val]
    /\ outcome' = [outcome EXCEPT ![p] =
                      IF db_load_text(file).ok THEN "loaded" ELSE "error"]
    /\ pc' = [pc EXCEPT ![p] = "done"]
    /\ UNCHANGED <<file, lock, now, issued, op, local, start_time,
                   lock_acquired, pos, out, before, file0, ncmds>>

\* md_save_tasks(tasks), the file it leaves
DocSave(p) ==
    /\ pc[p] = "idle"
    /\ file' = md_save_tasks(local[p])
    /\ op' = [op EXCEPT ![p] = [NoOp EXCEPT !.kind = "document", !.io = "save"]]
    /\ pc' = [pc EXCEPT ![p] = "saved"]
    /\ UNCHANGED <<lock, now, issued, loaded, local, start_time,
                   lock_acquired, pos, outcome, out, before, file0, ncmds>>

\* md_load_tasks()
DocLoad(p) ==
    /\ pc[p] = "saved"
    /\ op[p].kind = "document"
    /\ loaded' = [loaded EXCEPT ![p] = md_load_tasks(file)]
    /\ outcome' = [outcome EXCEPT ![p] = "loaded"]
    /\ pc' = [pc EXCEPT ![p] = "done"]
    /\ UNCHANGED <<file, lock, now, issued, op, local, start_time,
                   lock_acquired, pos, out, before, file0, ncmds>>

\* a call of auto_migrate_jsonl(); in SpecMigrate file holds the three paths
Migrate(p) ==
    /\ pc[p] \in {"idle", "done"}
    /\ ncmds < MaxCmds
    /\ file' = auto_migrate_jsonl(file).paths
    /\ outcome' = [outcome EXCEPT ![p] =
                      IF auto_migrate_jsonl(file).migrated
                      THEN "migrated" ELSE "nomigration"]
    /\ op' = [op EXCEPT ![p] = [NoOp EXCEPT !.kind = "migrate"]]
    /\ pc' = [pc EXCEPT ![p] = "done"]
    /\ ncmds' = ncmds + 1
    /\ UNCHANGED <<lock, now, issued, loaded, local, start_time,
                   lock_acquired, pos, out, before, file0>>

\* find_circular_dependencies(tasks) on the collection in local
FindCycle(p) ==
    /\ pc[p] = "idle"
    /\ out' = [out EXCEPT ![p] = find_circular_dependencies(local[p])]
    /\ outcome' = [outcome EXCEPT ![p] =
                      IF find_circular_dependencies(local[p]) = <<>>
                      THEN "nocycle" ELSE "cycle"]
    /\ op' = [op EXCEPT ![p] = [NoOp EXCEPT !.kind = "find_cycle"]]
    /\ pc' = [pc EXCEPT ![p] = "done"]
    /\ UNCHANGED <<file, lock, now, issued, loaded, local, start_time,
                   lock_acquired, pos, before, file0, ncmds>>

---------------------------------------------------------------------------
(* Environment                                                             *)

\* time passes
Tick ==
    /\ now < MaxTicks * DefaultTimeout
    /\ now' = now + DefaultTimeout
    /\ UNCHANGED <<file, lock, issued, pc, locals, file0, ncmds>>

---------------------------------------------------------------------------
(* Inputs                                                                  *)

\* a comma-separated id list as the commands split it: one or two entries
PrefixLists ==
    {<<q>> : q \in Prefixes} \cup {<<q, r>> : q \in Prefixes, r \in Prefixes}

EdgeOptions ==
    {"add_blocks", "add_blocked_by", "remove_blocks", "remove_blocked_by"}

\* update <id> with one of the four edge options, naming one task
EdgeArgs ==
    {[NoArgs EXCEPT ![f] = <<q>>] : f \in EdgeOptions, q \in Prefixes}

\* update <id> --status s
StatusArgs == {[NoArgs EXCEPT !.status = s] : s \in Statuses}

\* update <id> --title t1
TitleArgs == {[NoArgs EXCEPT !.title = "t1"]}

\* what a caller may type to show: the prefixes, and upper-case spellings
FindPrefixes == Prefixes \cup {<<"A">>, <<"A", "a">>, <<"a", "B">>}

\* what a description or a session log is made of: a letter, a newline, a
\* quote, a backslash, a heading line, three dashes, text in angle brackets
\* with an entity
TextChars == {"n", NL, Quote, Backslash, "## Session Logs", RuleMarker, "<b>&amp;"}

Texts == UNION {[1..n -> TextChars] : n \in 0..MaxText}

\* the texts of at most one character
ShortTexts == {<<>>} \cup {<<c>> : c \in TextChars}

\* no session, one, or two
SessionLists(logs) ==
    {<<>>} \cup {<<l>> : l \in logs} \cup {<<l, <<"n">>>> : l \in logs}

\* one free-text field ranges over Texts, the other over ShortTexts
TextTasks ==
    {TextTask(<<"a", "a">>, "in_progress", d, ss) :
        d \in Texts, ss \in SessionLists(ShortTexts)}
    \cup {TextTask(<<"a", "a">>, "in_progress", d, ss) :
             d \in ShortTexts, ss \in SessionLists(Texts)}

PlainTask == TextTask(<<"a", "b">>, "open", <<>>, <<>>)

\* the collections saved: none, one task, a task before or after another
Collections ==
    {<<>>} \cup {<<t>> : t \in TextTasks}
    \cup {<<t, PlainTask>> : t \in TextTasks}
    \cup {<<PlainTask, t>> : t \in TextTasks}

\* the lines a file may hold: the records of two tasks, text that is not
\* a record, an empty line, a record cut short, a byte that is not UTF-8
QuotedTask == TextTask(<<"a", "a">>, "done", <<NL, Quote>>, <<<<"n">>>>)

RecordLines == {json_dumps(PlainTask), json_dumps(QuotedTask)}

ForeignLines ==
    {<<"n", "n">>, <<>>, <<BadByte>>,
     SubSeq(json_dumps(PlainTask), 1, 5)}

RECURSIVE WriteLines(_)
WriteLines(lines) ==
    IF lines = <<>> THEN <<>>
    ELSE Head(lines) \o <<NL>> \o WriteLines(Tail(lines))

StoreLines ==
    UNION {[1..n -> RecordLines \cup ForeignLines] : n \in 0..MaxLines}

\* the line-format files a migration may meet: lines that are records and
\* lines that are not, all of them text
TextLines == RecordLines \cup (ForeignLines \ {<<BadByte>>})

MigrationSources ==
    {Absent} \cup
    {Present(WriteLines(ls)) :
        ls \in UNION {[1..n -> TextLines] : n \in 0..MaxLines}}

\* the document files there may be beforehand: none, an empty one, one
\* task, a document that is not one this program wrote
MigrationTargets ==
    {Absent, Present(<<>>), Present(md_save_tasks(<<QuotedTask>>)),
     Present(<<"# Existing content", NL>>)}

MigrationBackups == {Absent, Present(WriteLines(<<json_dumps(PlainTask)>>))}

\* the blocked_by lists of a collection to search: up to two ids that
\* differ, of tasks in the collection or not
BlockerLists ==
    {<<>>} \cup {<<a>> : a \in Ids}
    \cup {s \in {<<a, b>> : a \in Ids, b \in Ids} : s[1] # s[2]}

\* collections of one to three tasks
Graphs ==
    {<<[NewTask(<<"a", "a">>, "t0") EXCEPT !.blocked_by = x]>> : x \in BlockerLists}
    \cup {<<[NewTask(<<"a", "a">>, "t0") EXCEPT !.blocked_by = x],
            [NewTask(<<"a", "b">>, "t0") EXCEPT !.blocked_by = y]>> :
             x \in BlockerLists, y \in BlockerLists}
    \cup {<<[NewTask(<<"a", "a">>, "t0") EXCEPT !.blocked_by = x],
            [NewTask(<<"a", "b">>, "t0") EXCEPT !.blocked_by = y],
            [NewTask(<<"b", "a">>, "t0") EXCEPT !.blocked_by = z]>> :
             x \in BlockerLists, y \in BlockerLists, z \in BlockerLists}

\* a store of three tasks with the given statuses and edges; an edge
\* <<i, j>> says that task i blocks task j, and is recorded on both sides
GraphIds == <<<<"a", "a">>, <<"a", "b">>, <<"b", "a">>>>

EdgeIds(E, i, outgoing) ==
    LET other(j) == IF outgoing THEN <<i, j>> \in E ELSE <<j, i>> \in E
    IN  [n \in DOMAIN SelectSeq(<<1, 2, 3>>, other) |->
            GraphIds[SelectSeq(<<1, 2, 3>>, other)[n]]]

GraphStore(st, E) ==
    [i \in 1..3 |->
        [id |-> GraphIds[i], title |-> "t0", status |-> st[i],
         blocks |-> EdgeIds(E, i, TRUE), blocked_by |-> EdgeIds(E, i, FALSE)]]

\* no edge; one edge; two blockers of one task; a chain
EdgeSets ==
    {{}, {<<1, 2>>}, {<<1, 2>>, <<3, 2>>}, {<<1, 2>>, <<2, 3>>}}

\* the stores that new, update --add-blocks and update --status produce:
\* these edges under every assignment of statuses
GraphStores ==
    {GraphStore(st, E) : st \in [1..3 -> Statuses], E \in EdgeSets}

\* a session log entry, and the entries a task may hold from earlier updates
LogEntry(timestamp, log) == [timestamp |-> timestamp, log |-> log]

OldLogs == {LogEntry(0, "l0"), LogEntry(0, "l1")}

\* the sessions of a task: up to MaxLogs entries
LogLists == UNION {[1..n -> OldLogs] : n \in 0..MaxLogs}

\* a task as cmd_new creates it, with the sessions later updates gave it
LogTask(id, sessions) ==
    [id |-> id, title |-> "t0", status |-> "open",
     blocks |-> <<>>, blocked_by |-> <<>>, sessions |-> sessions]

\* two tasks; the second has no session or one
LogStores ==
    {<<LogTask(<<"a", "a">>, s1), LogTask(<<"b", "a">>, s2)>> :
        s1 \in LogLists, s2 \in {<<>>, <<LogEntry(0, "l0")>>}}

\* --delete-log i: absent, or an index from -1 to MaxLogs
LogIndexes == {<<>>} \cup {<<i>> : i \in -1..MaxLogs}

\* update <id> with any of --title, --delete-log, --log, --add-blocks and
\* --status, the status being a valid one or not
RequestArgs ==
    {[NoArgs EXCEPT !.title = t, !.delete_log = d, !.log = l,
                    !.add_blocks = e, !.status = st] :
        t \in {None, "t1"}, d \in LogIndexes, l \in {None, "l2"},
        e \in {<<>>, <<<<"b", "a">>>>}, st \in {None, "done", "bogus"}}

\* the stores left by update --status done on the blocker of an edge: the
\* blocker still lists the task in blocks, the task no longer lists the
\* blocker; any status may have been set since
CascadedStores ==
    {[GraphStore(st, {<<1, 2>>}) EXCEPT ![2].blocked_by = <<>>] :
        st \in [1..3 -> Statuses]}

---------------------------------------------------------------------------
(* Specifications                                                          *)

\* the steps by which a command that reached db_lock writes and returns
\* when nobody else holds the lock
StoreSteps(p) ==
    \/ LockAcquire(p)
    \/ SaveOpen(p)
    \/ SaveWrite(p)
    \/ AppendWrite(p)
    \/ Finally(p)

\* the steps of db_lock when the lock file exists
WaitSteps(p) ==
    \/ LockExpired(p)
    \/ LockCheckStale(p)
    \/ LockRemoveStale(p)

\* the commands, with their arguments drawn from the inputs above
New(p) == \E bl \in PrefixLists \cup {<<>>} : cmd_new(p, "t0", bl)
UpdateEdges(p) == \E pre \in Prefixes, a \in EdgeArgs : cmd_update(p, pre, a)
UpdateStatus(p) == \E pre \in Prefixes, a \in StatusArgs : cmd_update(p, pre, a)
UpdateTitle(p) == \E pre \in Prefixes, a \in TitleArgs : cmd_update(p, pre, a)
Delete(p) == \E pre \in Prefixes : cmd_delete(p, pre)
Ready(p) == cmd_ready(p)

\* SpecEdges: one caller runs up to MaxCmds commands, one after the other,
\* on a store that starts empty: new, update with an edge option, delete
NextEdges ==
    \/ ncmds < MaxCmds /\ New(1)
    \/ ncmds < MaxCmds /\ UpdateEdges(1)
    \/ ncmds < MaxCmds /\ Delete(1)
    \/ StoreSteps(1)

SpecEdges == InitWith(<<>>) /\ [][NextEdges]_vars

\* SpecSeq: the same caller may also set a status and ask for the ready tasks
NextSeq ==
    \/ NextEdges
    \/ ncmds < MaxCmds /\ UpdateStatus(1)
    \/ ncmds < MaxCmds /\ Ready(1)

SpecSeq == InitWith(<<>>) /\ [][NextSeq]_vars

\* stores that sequences of commands produce: empty, one task, two
\* unrelated tasks, a task and one it blocks
TaskA == NewTask(<<"a", "a">>, "t0")
TaskB == NewTask(<<"b", "a">>, "t0")

InitFiles ==
    {<<>>, <<TaskA>>, <<TaskA, TaskB>>,
     NewWithBlockers(<<TaskA>>, <<"b", "a">>, "t0", <<<<"a", "a">>>>)}

Init == \E f \in InitFiles : InitWith(f)

\* Spec: every caller runs one command, concurrently with the others, while
\* time passes
Next ==
    \/ \E p \in Procs : pc[p] = "idle" /\ New(p)
    \/ \E p \in Procs : pc[p] = "idle" /\ UpdateTitle(p)
    \/ \E p \in Procs : pc[p] = "idle" /\ Delete(p)
    \/ \E p \in Procs : pc[p] = "idle" /\ Ready(p)
    \/ \E p \in Procs : StoreSteps(p)
    \/ \E p \in Procs : WaitSteps(p)
    \/ Tick

Spec == Init /\ [][Next]_vars

\* SpecAppend: every caller appends one new task (new without --blocked-by),
\* concurrently with the others, while time passes
NextAppend ==
    \/ \E p \in Procs : pc[p] = "idle" /\ cmd_new(p, "t0", <<>>)
    \/ \E p \in Procs : LockAcquire(p)
    \/ \E p \in Procs : AppendWrite(p)
    \/ \E p \in Procs : Finally(p)
    \/ \E p \in Procs : WaitSteps(p)
    \/ Tick

SpecAppend == Init /\ [][NextAppend]_vars

\* SpecLock: the callers run up to MaxCmds commands that write the store
\* (new without --blocked-by appends, delete saves), each caller one after
\* the other and concurrently with the other callers; the guarded body may
\* fail, and time passes; the store starts with one task
NextLock ==
    \/ \E p \in Procs : ncmds < MaxCmds /\ cmd_new(p, "t0", <<>>)
    \/ \E p \in Procs : ncmds < MaxCmds /\ Delete(p)
    \/ \E p \in Procs : StoreSteps(p)
    \/ \E p \in Procs : BodyRaise(p)
    \/ \E p \in Procs : WaitSteps(p)
    \/ Tick

SpecLock == InitWith(<<TaskA>>) /\ [][NextLock]_vars

\* SpecWait: every caller appends one new task, starting while the clock
\* can still advance by a timeout.  A caller inside db_lock's loop keeps
\* running (the loop polls every 50 ms) and time keeps passing; a caller
\* inside the guarded body may stay there for ever
NextWait ==
    \/ \E p \in Procs : /\ pc[p] = "idle"
                         /\ now < MaxTicks * DefaultTimeout
                         /\ cmd_new(p, "t0", <<>>)
    \/ \E p \in Procs : LockAcquire(p)
    \/ \E p \in Procs : AppendWrite(p)
    \/ \E p \in Procs : Finally(p)
    \/ \E p \in Procs : WaitSteps(p)
    \/ Tick

SpecWait ==
    /\ Init /\ [][NextWait]_vars
    /\ WF_vars(Tick)
    /\ \A p \in Procs : WF_vars(LockAcquire(p) \/ WaitSteps(p))

\* SpecFind: one caller appends new tasks and shows tasks by id prefix, up
\* to MaxCmds commands, on a store that starts empty
Show(p) == \E pre \in FindPrefixes : cmd_show(p, pre)

NextFind ==
    \/ ncmds < MaxCmds /\ cmd_new(1, "t0", <<>>)
    \/ ncmds < MaxCmds /\ Show(1)
    \/ LockAcquire(1)
    \/ AppendWrite(1)
    \/ Finally(1)

SpecFind == InitWith(<<>>) /\ [][NextFind]_vars

---------------------------------------------------------------------------
\* SpecCrash: one caller runs commands that save, one after the other, and
\* may die inside db_save_tasks
NextCrash ==
    \/ ncmds < MaxCmds /\ New(1)
    \/ ncmds < MaxCmds /\ UpdateTitle(1)
    \/ ncmds < MaxCmds /\ Delete(1)
    \/ StoreSteps(1)
    \/ Crash(1)

SpecCrash == Init /\ [][NextCrash]_vars

\* SpecMigrate: auto_migrate_jsonl is called up to MaxCmds times on a
\* directory that holds any of the three files
InitMigrate ==
    /\ InitRest
    /\ \E j \in MigrationSources, m \in MigrationTargets, b \in MigrationBackups :
          file = [jsonl |-> j, md |-> m, backup |-> b]
    /\ file0 = file
    /\ issued = {}
    /\ local = [p \in Procs |-> <<>>]

NextMigrate == Migrate(1)

SpecMigrate == InitMigrate /\ [][NextMigrate]_vars

\* SpecCycle: a collection is searched for a cycle
InitCycle ==
    /\ InitRest
    /\ file = <<>>
    /\ file0 = <<>>
    /\ issued = {}
    /\ \E g \in Graphs : local = [p \in Procs |-> IF p = 1 THEN g ELSE <<>>]

NextCycle == FindCycle(1)

SpecCycle == InitCycle /\ [][NextCycle]_vars

\* SpecGraph: on a store of three tasks one caller runs one command: update
\* with an edge option or a status, delete
NextGraph ==
    \/ ncmds = 0 /\ UpdateEdges(1)
    \/ ncmds = 0 /\ UpdateStatus(1)
    \/ ncmds = 0 /\ Delete(1)
    \/ LockAcquire(1)
    \/ SaveOpen(1)
    \/ SaveWrite(1)
    \/ Finally(1)

SpecGraph == (\E f \in GraphStores : InitWith(f)) /\ [][NextGraph]_vars

\* SpecLog: on a store of two tasks with sessions one caller runs one update,
\* at some time, naming a task by its id or a task that is not there
UpdateRequest(p) ==
    \E pre \in Ids \cup {<<"c">>}, a \in RequestArgs : cmd_update(p, pre, a)

NextLog ==
    \/ ncmds = 0 /\ Tick
    \/ ncmds = 0 /\ UpdateRequest(1)
    \/ LockAcquire(1)
    \/ SaveOpen(1)
    \/ SaveWrite(1)
    \/ Finally(1)

SpecLog == (\E f \in LogStores : InitWith(f)) /\ [][NextLog]_vars

\* SpecFrame: SpecGraph, the store being also one that a completion
\* cascade has left
SpecFrame ==
    (\E f \in GraphStores \cup CascadedStores : InitWith(f))
    /\ [][NextGraph]_vars

\* the stores of three tasks, each open or blocked, with the edges of
\* EdgeSets, which form no cycle
ProgressStores ==
    {GraphStore(st, E) : st \in [1..3 -> {"open", "blocked"}], E \in EdgeSets}

\* SpecProgress: on a store of three tasks whose edges form no cycle, one
\* caller asks for the ready tasks and marks one of those listed done, again
\* and again; the caller keeps running
ListReady(p) == op[p].kind # "ready" /\ cmd_ready(p)

MarkReadyDone(p) ==
    /\ pc[p] = "done" /\ op[p].kind = "ready"
    /\ \E i \in DOMAIN out[p] :
          cmd_update(p, out[p][i].id, [NoArgs EXCEPT !.status = "done"])

NextProgress ==
    \/ ListReady(1)
    \/ MarkReadyDone(1)
    \/ LockAcquire(1)
    \/ SaveOpen(1)
    \/ SaveWrite(1)
    \/ Finally(1)

SpecProgress ==
    /\ \E f \in ProgressStores : InitWith(f)
    /\ [][NextProgress]_vars
    /\ WF_vars(NextProgress)

\* SpecCodec: a collection of text records is saved in one of the two
\* formats and loaded back
InitCodec ==
    /\ InitRest
    /\ file = <<>>
    /\ file0 = <<>>
    /\ issued = {}
    /\ \E x \in Collections : local = [p \in Procs |-> IF p = 1 THEN x ELSE <<>>]

NextCodec ==
    \/ LineSave(1)
    \/ LineLoad(1)
    \/ DocSave(1)
    \/ DocLoad(1)

SpecCodec == InitCodec /\ [][NextCodec]_vars

\* SpecLoad: a file of up to MaxLines lines, records and others, is loaded;
\* file0 keeps the lines
InitLoad ==
    /\ InitRest
    /\ file0 \in StoreLines
    /\ file = WriteLines(file0)
    /\ issued = {}
    /\ local = [p \in Procs |-> <<>>]

NextLoad == LineLoad(1)

SpecLoad == InitLoad /\ [][NextLoad]_vars

---------------------------------------------------------------------------
(* Properties                                                              *)

\* the records a load of the store returns now
Stored == db_load_tasks(file)

\* the caller is inside the body guarded by db_lock
InBody(p) == pc[p] \in {"open", "write"}

\* the caller's command has returned after saving / appending
Saved(p) == pc[p] = "done" /\ outcome[p] = "saved"
Appended(p) == pc[p] = "done" /\ outcome[p] = "appended"

\* task i lists task j in blocks / task j lists task i in blocked_by
Blocks(T, i, j) == Contains(T[i].blocks, T[j].id)
BlockedBy(T, j, i) == Contains(T[j].blocked_by, T[i].id)

\* task i blocks task j through at most n edges
RECURSIVE BlocksWithin(_, _, _, _)
BlocksWithin(T, i, j, n) ==
    \/ Blocks(T, i, j)
    \/ n > 1 /\ \E m \in DOMAIN T : Blocks(T, i, m) /\ BlocksWithin(T, m, j, n - 1)

\* seq without any occurrence of x
Without(seq, x) == LET other(y) == y # x IN SelectSeq(seq, other)

\* the index in T of the task with this id (ids are unique in T)
IndexOf(T, id) == CHOOSE i \in DOMAIN T : T[i].id = id

\* C1: at most one caller is inside the body guarded by db_lock.
C1_MutualExclusion ==
    Cardinality({p \in Procs : InBody(p)}) <= 1

\* C2: when two callers have each loaded the store and completed an update
\* that set the title of a different task, the store shows both new titles.
C2_NoLostUpdate ==
    \A p \in Procs : \A q \in Procs \ {p} :
       ( /\ Saved(p) /\ op[p].kind = "update" /\ op[p].title # None
         /\ Saved(q) /\ op[q].kind = "update" /\ op[q].title # None
         /\ op[p].target # op[q].target
         /\ loaded[p] = file0 /\ loaded[q] = file0 )
       => \E i \in DOMAIN Stored :
             Stored[i].id = op[p].target /\ Stored[i].title = op[p].title

\* C3: after any sequence of new, add-edge, remove-edge and delete commands,
\* for all stored tasks A and B: B.id is in A.blocks iff A.id is in
\* B.blocked_by.
C3_EdgeSymmetry ==
    \A i \in DOMAIN Stored : \A j \in DOMAIN Stored :
       Blocks(Stored, i, j) <=> BlockedBy(Stored, j, i)

\* C3 witness: a delete has completed and left a task that blocks another
C3_Witness ==
    /\ Saved(1) /\ op[1].kind = "delete"
    /\ \E i \in DOMAIN Stored : \E j \in DOMAIN Stored :
          i # j /\ Blocks(Stored, i, j) /\ BlockedBy(Stored, j, i)

\* C4: after a task T was marked done, for every other stored task A: A.id
\* is in T.blocks iff T.id is in A.blocked_by.
C4_SymmetryAfterDone ==
    (Saved(1) /\ op[1].kind = "update" /\ op[1].status = "done")
    => \A i \in DOMAIN Stored : \A j \in DOMAIN Stored \ {i} :
          Stored[i].id = op[1].target
          => (Blocks(Stored, i, j) <=> BlockedBy(Stored, j, i))

\* C5: the graph stays acyclic under add-edge: no two different stored
\* tasks ever block each other (directly or through other tasks).
C5_StaysAcyclic ==
    \A i \in DOMAIN Stored : \A j \in DOMAIN Stored :
       i # j => ~( /\ BlocksWithin(Stored, i, j, Len(Stored))
                   /\ BlocksWithin(Stored, j, i, Len(Stored)) )

\* C6: after task B was marked done (update --status done and nothing
\* else), every other task X that B.blocks listed has lost B from its
\* blocked_by and kept its other blockers; X is open if that emptied its
\* blocked_by and X was blocked; otherwise X has the status it had.
C6_Marked(p) ==
    /\ Saved(p) /\ op[p].kind = "update" /\ op[p].status = "done"
    /\ op[p].title = None

C6_CompletionCascade ==
    C6_Marked(1) =>
      /\ Len(Stored) = Len(loaded[1])
      /\ \A i \in DOMAIN loaded[1] :
           ( /\ loaded[1][i].id # op[1].target
             /\ Blocks(loaded[1], IndexOf(loaded[1], op[1].target), i) )
           => /\ Stored[i].id = loaded[1][i].id
              /\ Stored[i].blocked_by
                   = Without(loaded[1][i].blocked_by, op[1].target)
              /\ Stored[i].status =
                   IF /\ Contains(loaded[1][i].blocked_by, op[1].target)
                      /\ Stored[i].blocked_by = <<>>
                      /\ loaded[1][i].status = "blocked"
                   THEN "open"
                   ELSE loaded[1][i].status

\* C6 witness: marking B done opened one blocked task and left another one,
\* which has a second blocker, blocked
C6_Witness ==
    /\ C6_Marked(1)
    /\ \E i \in DOMAIN loaded[1] : \E j \in DOMAIN loaded[1] :
          /\ loaded[1][i].status = "blocked" /\ Stored[i].status = "open"
          /\ loaded[1][i].blocked_by = <<op[1].target>>
          /\ loaded[1][j].status = "blocked" /\ Stored[j].status = "blocked"
          /\ Contains(loaded[1][j].blocked_by, op[1].target)
          /\ Stored[j].blocked_by # <<>>

\* C7: ready reports exactly the loaded tasks that are not done and whose
\* every blocked_by id is the id of a loaded task that is done.
C7_Ready(T, t) ==
    /\ t.status # "done"
    /\ \A b \in {t.blocked_by[i] : i \in DOMAIN t.blocked_by} :
          \E u \in {T[i] : i \in DOMAIN T} : u.id = b /\ u.status = "done"

C7_ReadySet ==
    \A p \in Procs :
       (pc[p] = "done" /\ op[p].kind = "ready")
       => LET want(t) == C7_Ready(loaded[p], t)
          IN out[p] = SelectSeq(loaded[p], want)

\* C7 witness: ready ran on a store in which a task that is not done is
\* blocked by an id no task has, and did not report it
C7_Witness ==
    /\ pc[1] = "done" /\ op[1].kind = "ready"
    /\ \E i \in DOMAIN loaded[1] :
          /\ loaded[1][i].status # "done"
          /\ \E n \in DOMAIN loaded[1][i].blocked_by :
                \A j \in DOMAIN loaded[1] :
                   loaded[1][j].id # loaded[1][i].blocked_by[n]
          /\ ~Contains(out[1], loaded[1][i])

\* C8: a load that runs while another caller is writing a save returns the
\* records stored before that save or the records being saved.
C8_LoadSeesComplete ==
    [][\A p \in Procs : \A q \in Procs \ {p} :
          ( /\ pc[p] = "idle" /\ pc'[p] = "done" /\ op'[p].kind = "ready"
            /\ pc[q] = "write" )
          => loaded'[p] \in {before[q], local[q]}]_vars

\* C9: every record whose append has been written is in the store, once,
\* as a line of its own, after the lines that were there at the start;
\* nothing else is in the store.
C9_AppendsKept ==
    /\ \A i \in DOMAIN file : IsTask(file[i])
    /\ Len(file) >= Len(file0)
    /\ SubSeq(file, 1, Len(file0)) = file0
    /\ \A p \in Procs :
          outcome[p] = "appended"
          => Cardinality({i \in DOMAIN file : file[i] = local[p][1]}) = 1
    /\ Len(file) = Len(file0)
                   + Cardinality({p \in Procs : outcome[p] = "appended"})

\* C9 witness: two appends overlapped inside db_lock (the second caller
\* took over the first one's lock file, and the first one's release
\* removed the second one's) and both have been written
C9_Witness ==
    /\ Appended(1)
    /\ pc[2] = "finally" /\ outcome[2] = "appended" /\ lock_acquired[2]
    /\ ~lock.exists
    /\ file0 # <<>>

\* C10: when the callers' saves have all completed, the file is
\* exactly the collection one of them saved.
C10_SavesDoNotMix ==
    (\A p \in Procs : Saved(p)) => \E p \in Procs : file = local[p]

\* C11: a waiter removes only a lock file that is older than 2 x timeout.
C11_RemovesOnlyStale ==
    [][\A p \in Procs :
          (pc[p] = "remove" /\ pc'[p] = "try")
          => now - lock.mtime > DefaultTimeout * 2]_vars

C13_LockTerminates ==
    /\ [](\A p \in Procs : outcome[p] = "timeout"
                             => now - start_time[p] >= DefaultTimeout)
    /\ \A p \in Procs :
          (pc[p] = "try")
          ~> (pc[p] = "open" \/ (pc[p] = "finally" /\ outcome[p] = "timeout"))

\* C13 witness: a caller got TimeoutError against a lock that is held by a
\* caller inside the guarded body and is not stale
C13_Witness ==
    /\ pc[2] = "finally" /\ outcome[2] = "timeout"
    /\ InBody(1) /\ lock.exists /\ lock.owner = 1
    /\ now - lock.mtime <= DefaultTimeout * 2

\* C14: a save or append that ends with TimeoutError never acquired the
\* lock, and no step of a caller that has not acquired the lock changes the
\* store file.
C14_TimeoutWritesNothing ==
    [][\A p \in Procs :
          /\ outcome'[p] = "timeout" => ~lock_acquired'[p]
          /\ (pc'[p] # pc[p] /\ ~lock_acquired'[p]) => file' = file]_vars

\* C14 witness: a save has ended with TimeoutError while the other caller
\* is inside the guarded body, and the file holds what it held at the start
C14_Witness ==
    /\ pc[2] = "done" /\ outcome[2] = "timeout" /\ op[2].io = "save"
    /\ pc[1] = "open"
    /\ file = file0 /\ file0 # <<>>

\* the stored tasks whose id begins with the characters of pre
Matching(T, pre) ==
    {i \in DOMAIN T :
        /\ Len(pre) <= Len(T[i].id)
        /\ \A n \in DOMAIN pre : T[i].id[n] = pre[n]}

\* what the claim says find_task answers
C15_Answer(T, M, pre) ==
    IF pre # <<>> /\ \E i \in M : M = {i}
    THEN {<<T[i]>> : i \in M}
    ELSE {<<>>}

\* C15: show (find_task) of a prefix finds a task exactly when the prefix
\* is not empty and exactly one stored id begins with it, and then it finds
\* that task.
C15_FindTask ==
    [][\A pre \in FindPrefixes :
          cmd_show(1, pre)
          => out'[1] \in C15_Answer(Stored, Matching(Stored, pre), pre)]_vars

\* C15 witness: with two stored ids that begin alike, show of the prefix
\* they share has found no task
C15_Witness ==
    /\ pc[1] = "done" /\ op[1].kind = "show"
    /\ out[1] = <<>>
    /\ Cardinality(Matching(loaded[1], <<"a">>)) = 2

\* C16: an update whose only option is an edge list with one entry that is
\* empty, matches no task or matches several tasks returns without saving.
C16_NoMutationForBadPrefix ==
    [][\A pre \in Prefixes, q \in Prefixes, f \in EdgeOptions :
          ( /\ cmd_update(1, pre, [NoArgs EXCEPT ![f] = <<q>>])
            /\ (q = <<>> \/ Cardinality(Matching(Stored, q)) # 1) )
          => pc'[1] = "done"]_vars

\* C17: no stored task lists its own id in blocks or blocked_by.
C17_NoSelfLoop ==
    \A i \in DOMAIN Stored :
       ~Blocks(Stored, i, i) /\ ~BlockedBy(Stored, i, i)

\* C18: once delete(T) has saved, T is not in the store, no stored task lists
\* T's id in blocks or blocked_by, and every task that was blocked and listed
\* nothing but T in blocked_by is open.
C18_DeleteStrips ==
    (Saved(1) /\ op[1].kind = "delete") =>
       /\ \A i \in DOMAIN Stored :
             /\ Stored[i].id # op[1].target
             /\ ~Contains(Stored[i].blocks, op[1].target)
             /\ ~Contains(Stored[i].blocked_by, op[1].target)
       /\ \A j \in DOMAIN loaded[1] :
             ( /\ loaded[1][j].id # op[1].target
               /\ loaded[1][j].status = "blocked"
               /\ loaded[1][j].blocked_by # <<>>
               /\ \A n \in DOMAIN loaded[1][j].blocked_by :
                     loaded[1][j].blocked_by[n] = op[1].target )
             => \E i \in DOMAIN Stored :
                   Stored[i].id = loaded[1][j].id /\ Stored[i].status = "open"

RECURSIVE C20_Records(_)
C20_Records(lines) ==
    IF lines = <<>> THEN <<>>
    ELSE (IF Head(lines) \in RecordLines
          THEN <<CHOOSE t \in {PlainTask, QuotedTask} : json_dumps(t) = Head(lines)>>
          ELSE <<>>)
         \o C20_Records(Tail(lines))

\* C20: a load of the line format never fails and returns exactly the
\* records of the lines that parse, in file order, whatever the other lines
\* hold.
C20_LoadSkipsMalformed ==
    pc[1] = "done"
    => (outcome[1] = "loaded" /\ loaded[1] = C20_Records(file0))

\* the ids of a list of tasks, in order
IdsOf(T) == [i \in DOMAIN T |-> T[i].id]

\* C21: no two stored tasks have the same id, and the list a command saves
\* holds the tasks it loaded under the ids they had (less the one deleted,
\* plus the one created).
C21_UniqueIds ==
    /\ \A i, j \in DOMAIN Stored : Stored[i].id = Stored[j].id => i = j
    /\ \A p \in Procs :
          (op[p].io = "save" /\ pc[p] \in {"try", "getmtime", "remove", "open", "write"})
          => IdsOf(local[p]) =
                IF op[p].kind = "delete"
                THEN IdsOf(WithoutId(loaded[p], op[p].target))
                ELSE IF op[p].kind = "new"
                THEN Append(IdsOf(loaded[p]), op[p].target)
                ELSE IdsOf(loaded[p])

\* C22: when the process died inside db_save_tasks, the file holds the
\* complete collection the command loaded or the complete collection it was
\* saving.
C22_SaveAtomic ==
    pc[1] = "crashed" => (file = loaded[1] \/ file = local[1])

\* the stores of the scenario: A alone; A and B blocked by A; A done and B
\* open, its blocker removed by the unblocking pass
C23_A(a) == <<NewTask(a, "t0")>>

C23_AB(a, b) ==
    <<[NewTask(a, "t0") EXCEPT !.blocks = <<b>>],
      [NewTask(b, "t0") EXCEPT !.status = "blocked", !.blocked_by = <<a>>]>>

C23_ADone(a, b) ==
    <<[C23_AB(a, b)[1] EXCEPT !.status = "done"],
      [C23_AB(a, b)[2] EXCEPT !.status = "open", !.blocked_by = <<>>]>>

\* C23: on an empty store new writes A, open; on that store new --blocked-by A
\* saves A with blocks = [B] and B blocked; on that store update A --status
\* done saves A done and B open; on that store ready reports exactly B; and
\* a save leaves the list saved in the store, an append the record appended
\* at its end.
C23_Scenario ==
    /\ [](Saved(1) => file = local[1])
    /\ [][(pc[1] = "open" /\ op[1].io = "append" /\ pc'[1] = "finally")
          => file' = Append(file, local[1][1])]_vars
    /\ [][\A a \in Ids : \A b \in Ids \ {a} :
            /\ (file = <<>> /\ cmd_new(1, "t0", <<>>) /\ op'[1].target = a)
               => local'[1] = C23_A(a)
            /\ (file = C23_A(a) /\ cmd_new(1, "t0", <<a>>) /\ op'[1].target = b)
               => local'[1] = C23_AB(a, b)
            /\ (file = C23_AB(a, b)
                 /\ cmd_update(1, a, [NoArgs EXCEPT !.status = "done"]))
               => local'[1] = C23_ADone(a, b)
            /\ (file = C23_ADone(a, b) /\ cmd_ready(1))
               => out'[1] = <<C23_ADone(a, b)[2]>>]_vars

\* C23 witness: the scenario was run to its end, and ready reported B
C23_Witness ==
    /\ pc[1] = "done" /\ op[1].kind = "ready" /\ ncmds = 4
    /\ \E a \in Ids : \E b \in Ids \ {a} :
          file = C23_ADone(a, b) /\ out[1] = <<C23_ADone(a, b)[2]>>

RECURSIVE C25_Reaches(_, _, _, _)
C25_Reaches(T, i, j, n) ==
    \/ BlockedBy(T, i, j)
    \/ n > 1 /\ \E m \in DOMAIN T : BlockedBy(T, i, m) /\ C25_Reaches(T, m, j, n - 1)

\* c is a cycle of T: ids of tasks of T, all different, each blocked by the
\* next and the last by the first
C25_IsCycle(T, c) ==
    /\ c # <<>>
    /\ \A n \in DOMAIN c : \E i \in DOMAIN T : T[i].id = c[n]
    /\ \A n, m \in DOMAIN c : c[n] = c[m] => n = m
    /\ \A n \in DOMAIN c : \A i \in DOMAIN T :
          T[i].id = c[n] => Contains(T[i].blocked_by, c[(n % Len(c)) + 1])

\* C25: find_cycle returns a cycle of the collection when the blocked_by
\* graph has one and nothing when it has none; on two tasks blocked by each
\* other the cycle has two elements.
C25_FindCycle ==
    pc[1] = "done" =>
       /\ (out[1] # <<>>) = (\E i \in DOMAIN local[1] :
                                C25_Reaches(local[1], i, i, Len(local[1])))
       /\ out[1] # <<>> => C25_IsCycle(local[1], out[1])
       /\ (Len(local[1]) = 2 /\ local[1][1].blocked_by = <<local[1][2].id>>
           /\ local[1][2].blocked_by = <<local[1][1].id>>) => Len(out[1]) = 2

\* C25 witness: the cycle of two tasks blocked by each other was returned
C25_Witness ==
    /\ pc[1] = "done" /\ Len(local[1]) = 2
    /\ local[1][1].blocked_by = <<<<"a", "b">>>>
    /\ local[1][2].blocked_by = <<<<"a", "a">>>>
    /\ out[1] = <<<<"a", "a">>, <<"a", "b">>>>

\* the store holds a task with id a and a task with id b
BothStored(a, b) ==
    /\ \E i \in DOMAIN Stored : Stored[i].id = a
    /\ \E i \in DOMAIN Stored : Stored[i].id = b

\* the status the blocked task has after add_edge when only a first blocker
\* changes it
FirstBlockerStatus(t) ==
    IF t.blocked_by = <<>> /\ t.status \notin {"done", "blocked"}
    THEN "blocked" ELSE t.status

\* update a --add-blocks b, update b --add-blocked-by a
AddBlocksArgs(b) == [NoArgs EXCEPT !.add_blocks = <<b>>]
AddBlockedByArgs(a) == [NoArgs EXCEPT !.add_blocked_by = <<a>>]

\* C26: add_edge(blocker, blocked), by either option, sets the blocked task's
\* status to blocked exactly when the new blocker is the first blocker the
\* task has and its status is neither done nor blocked; a task that already
\* has another blocker, or is done, keeps its status.
C26_AddEdgeStatus ==
    [][\A a \in Ids : \A b \in Ids \ {a} :
          /\ BothStored(a, b) /\ cmd_update(1, a, AddBlocksArgs(b))
                => local'[1][IndexOf(Stored, b)].status
                     = FirstBlockerStatus(Stored[IndexOf(Stored, b)])
          /\ BothStored(a, b) /\ cmd_update(1, b, AddBlockedByArgs(a))
                => local'[1][IndexOf(Stored, b)].status
                     = FirstBlockerStatus(Stored[IndexOf(Stored, b)])]_vars

\* update a --remove-blocks b, update b --remove-blocked-by a
RemoveBlocksArgs(b) == [NoArgs EXCEPT !.remove_blocks = <<b>>]
RemoveBlockedByArgs(a) == [NoArgs EXCEPT !.remove_blocked_by = <<a>>]

\* the blocked task becomes open exactly when the removal took its last
\* blocker away and it was blocked
LastBlockerStatus(t, a) ==
    IF Contains(t.blocked_by, a) /\ Without(t.blocked_by, a) = <<>>
       /\ t.status = "blocked"
    THEN "open" ELSE t.status

\* T2 is T after remove_edge of the blocker at ia and the blocked task at ib
EdgeRemoved(T, T2, ia, ib) ==
    /\ T2[ia].blocks = Without(T[ia].blocks, T[ib].id)
    /\ T2[ib].blocked_by = Without(T[ib].blocked_by, T[ia].id)
    /\ T2[ib].status = LastBlockerStatus(T[ib], T[ia].id)

\* C27: remove_edge(blocker, blocked), by either option, removes blocked from
\* blocker.blocks and blocker from blocked.blocked_by; the blocked task
\* becomes open if and only if the removal left its blocked_by empty and its
\* status was blocked, and keeps its status otherwise.
C27_RemoveEdge ==
    [][\A a \in Ids : \A b \in Ids \ {a} :
          /\ BothStored(a, b) /\ cmd_update(1, a, RemoveBlocksArgs(b))
                => EdgeRemoved(Stored, local'[1],
                               IndexOf(Stored, a), IndexOf(Stored, b))
          /\ BothStored(a, b) /\ cmd_update(1, b, RemoveBlockedByArgs(a))
                => EdgeRemoved(Stored, local'[1],
                               IndexOf(Stored, a), IndexOf(Stored, b))]_vars

\* the command of caller p is an update or a delete that has computed the
\* collection it is about to save
Computed(p) ==
    pc[p] = "try" /\ op[p].io = "save" /\ op[p].kind \in {"update", "delete"}

\* task i of what the command loaded was blocked and is open, under the same
\* id, in what it saves, without the command having asked for that status
AutoOpened(p, i) ==
    /\ loaded[p][i].status = "blocked"
    /\ ~(op[p].status = "open" /\ op[p].target = loaded[p][i].id)
    /\ \E j \in DOMAIN local[p] :
          local[p][j].id = loaded[p][i].id /\ local[p][j].status = "open"

\* C28: a task that is blocked while its blocked_by is empty is never
\* changed to open by remove_edge, by the completion cascade of another task
\* or by delete: the automatic blocked-to-open transition happens only in a
\* step in which blocked_by goes from non-empty to empty.
C28_OpenOnlyOnLastBlocker ==
    Computed(1) =>
        \A i \in DOMAIN loaded[1] :
            AutoOpened(1, i) =>
                /\ loaded[1][i].blocked_by # <<>>
                /\ \A j \in DOMAIN local[1] :
                      local[1][j].id = loaded[1][i].id
                          => local[1][j].blocked_by = <<>>

\* a delete opens a blocked task whose only blocker it removes, and leaves
\* blocked another task that is blocked with an empty blocked_by
C28_Witness ==
    /\ Computed(1) /\ op[1].kind = "delete"
    /\ \E i \in DOMAIN loaded[1] :
          AutoOpened(1, i) /\ loaded[1][i].blocked_by = <<op[1].target>>
    /\ \E i \in DOMAIN loaded[1], j \in DOMAIN local[1] :
          /\ loaded[1][i].status = "blocked" /\ loaded[1][i].blocked_by = <<>>
          /\ local[1][j] = loaded[1][i]

\* the collection cmd_update saves when the same request is made again on
\* the collection T that the first request saved
AppliedAgain(T, id, args) == UpdateTasks(T, IndexOf(T, id), args, now).tasks

\* C29: add_edge is idempotent: applying add_edge(blocker, blocked) a second
\* time, by either option, leaves every task's blocks, blocked_by and status
\* exactly as after the first application.
C29_AddEdgeIdempotent ==
    [][\A a \in Ids : \A b \in Ids :
          /\ BothStored(a, b) /\ cmd_update(1, a, AddBlocksArgs(b))
                => AppliedAgain(local'[1], a, AddBlocksArgs(b)) = local'[1]
          /\ BothStored(a, b) /\ cmd_update(1, b, AddBlockedByArgs(a))
                => AppliedAgain(local'[1], b, AddBlockedByArgs(a)) = local'[1]]_vars

\* an add option has recorded a new edge on both sides and blocked an open
\* task with it
C29_Witness ==
    /\ Computed(1) /\ op[1].kind = "update"
    /\ op[1].status = None /\ op[1].title = None
    /\ \E ia, ib \in DOMAIN loaded[1] :
          /\ ia # ib
          /\ ~Blocks(loaded[1], ia, ib) /\ ~BlockedBy(loaded[1], ib, ia)
          /\ loaded[1][ib].status = "open"
          /\ Blocks(local[1], ia, ib) /\ BlockedBy(local[1], ib, ia)
          /\ local[1][ib].status = "blocked"

\* update a --status s
StatusOnlyArgs(s) == [NoArgs EXCEPT !.status = s]

\* C30: an explicit status update to any of open, in_progress, blocked, done
\* is accepted from any current status and leaves the target task with
\* exactly the requested status, whatever its blockers; done is not final.
C30_ExplicitStatus ==
    [][\A a \in Ids : \A s \in Statuses :
          BothStored(a, a) /\ cmd_update(1, a, StatusOnlyArgs(s))
              => /\ pc'[1] = "try"
                 /\ local'[1][IndexOf(Stored, a)].id = a
                 /\ local'[1][IndexOf(Stored, a)].status = s]_vars

\* a done task that has a blocker has been reopened by update --status open
C30_Witness ==
    /\ Computed(1) /\ op[1].kind = "update" /\ op[1].status = "open"
    /\ \E i \in DOMAIN loaded[1] :
          /\ loaded[1][i].id = op[1].target
          /\ loaded[1][i].status = "done"
          /\ loaded[1][i].blocked_by # <<>>
          /\ local[1][i].status = "open"
          /\ local[1][i].blocked_by = loaded[1][i].blocked_by

\* update a --log text, update a --delete-log i
LogArgs(log) == [NoArgs EXCEPT !.log = log]
DeleteLogArgs(i) == [NoArgs EXCEPT !.delete_log = <<i>>]

\* ss2 is ss without its entry at position i, counted from 0, the others in
\* their order
EntryRemoved(ss, ss2, i) ==
    /\ Len(ss2) = Len(ss) - 1
    /\ \A j \in 1..Len(ss2) : ss2[j] = IF j <= i THEN ss[j] ELSE ss[j + 1]

\* the update returns with an error and writes nothing
Rejected ==
    pc'[1] = "done" /\ outcome'[1] = "rejected" /\ file' = file

\* C31: adding a log appends one {timestamp, log} entry at the end of the
\* task's sessions and changes no earlier entry; deleting by position i with
\* 0 <= i < length removes exactly the i-th entry and keeps the others in
\* their order; a position outside that range is reported as an error and
\* removes nothing.
C31_SessionLogs ==
    [][\A a \in Ids :
          /\ BothStored(a, a) /\ cmd_update(1, a, LogArgs("l2"))
                => /\ pc'[1] = "try"
                   /\ local'[1][IndexOf(Stored, a)].sessions
                        = Append(Stored[IndexOf(Stored, a)].sessions,
                                 LogEntry(now, "l2"))
          /\ \A i \in -1..MaxLogs :
                BothStored(a, a) /\ cmd_update(1, a, DeleteLogArgs(i))
                    => IF 0 <= i /\ i < Len(Stored[IndexOf(Stored, a)].sessions)
                       THEN /\ pc'[1] = "try"
                            /\ EntryRemoved(Stored[IndexOf(Stored, a)].sessions,
                                            local'[1][IndexOf(Stored, a)].sessions,
                                            i)
                       ELSE Rejected]_vars

\* --delete-log 1 has removed the middle one of three entries
C31_Witness ==
    /\ Computed(1) /\ op[1].kind = "update"
    /\ \E i \in DOMAIN loaded[1] :
          /\ loaded[1][i].sessions
                = <<LogEntry(0, "l0"), LogEntry(0, "l1"), LogEntry(0, "l0")>>
          /\ local[1][i].sessions = <<LogEntry(0, "l0"), LogEntry(0, "l0")>>

\* no element occurs twice in seq
NoRepeat(seq) == \A i, j \in DOMAIN seq : seq[i] = seq[j] => i = j

\* C32: blocks and blocked_by are sets: after any sequence of new with a
\* blocked-by list, add_edge, remove_edge, marking done and delete, no id
\* occurs twice in a task's blocks or in a task's blocked_by.
C32_EdgeListsAreSets ==
    \A i \in DOMAIN Stored :
        NoRepeat(Stored[i].blocks) /\ NoRepeat(Stored[i].blocked_by)

\* the task that new --blocked-by is about to save: the last of the
\* collection
Created(p) == local[p][Len(local[p])]

\* C33: a task created with a blocked-by list has status blocked if and only
\* if at least one listed blocker was found and attached to it; when none
\* of the listed prefixes resolves to a task, it is created open with an
\* empty blocked_by.
C33_NewBlockedStatus ==
    (pc[1] = "try" /\ op[1].kind = "new" /\ op[1].io = "save") =>
        /\ Created(1).id = op[1].target
        /\ Created(1).status
             = IF Created(1).blocked_by # <<>> THEN "blocked" ELSE "open"

\* C34: releasing the lock removes only the lock file that the releasing
\* caller created: a caller whose lock file was taken over through
\* stale-lock recovery does not delete the new holder's lock file when its
\* own guarded body exits.
C34_ReleaseOwnLockOnly ==
    [][\A p \in Procs :
          (pc[p] = "finally" /\ pc'[p] = "done"
           /\ lock.exists /\ lock.owner # p)
          => lock' = lock]_vars

\* the collection holds a task with this id
HasId(T, id) == \E i \in DOMAIN T : T[i].id = id

\* C35: a task appended by one process while another process is between
\* the load and the save of an update or delete is still in the store after
\* both operations have completed.
C35_AppendSurvivesSave ==
    \A p \in Procs : \A q \in Procs \ {p} :
       ( /\ Appended(p) /\ op[p].kind = "new"
         /\ Saved(q) /\ op[q].kind \in {"update", "delete"}
         /\ ~HasId(loaded[q], op[p].target) )
       => HasId(Stored, op[p].target)

\* the request is one that update rejects once it has found task k
InvalidRequest(T, k, args) ==
    k # 0 /\ (args.status = "bogus" \/ InvalidLogIndex(T, k, args.delete_log))

\* a request that carries a title, a log and an edge next to --delete-log d
\* and --status st
FullRequest(d, st) ==
    [NoArgs EXCEPT !.title = "t1", !.delete_log = d, !.log = "l2",
                   !.add_blocks = <<<<"b", "a">>>>, !.status = st]

\* C36: when update is rejected for an invalid log index or an invalid
\* status value, nothing is persisted: the store file is what it was before
\* the call, even when the same request also carried valid title, log or
\* edge changes.
C36_RejectedPersistsNothing ==
    [][\A id \in Ids : \A d \in LogIndexes : \A st \in {None, "done", "bogus"} :
          (InvalidRequest(Stored, find_task(id, Stored), FullRequest(d, st))
           /\ cmd_update(1, id, FullRequest(d, st)))
          => Rejected]_vars

\* a request with a new title and an invalid log index has been rejected
C36_Witness ==
    /\ pc[1] = "done" /\ outcome[1] = "rejected"
    /\ op[1].title = "t1" /\ op[1].status = None
    /\ file = file0

\* C37: the status of a task that is done is changed only by an explicit
\* status update on that task: add_edge, remove_edge, the completion cascade
\* of another task and delete of another task never change the status of a
\* done task.
C37_DoneStaysDone ==
    Computed(1) =>
        \A i \in DOMAIN loaded[1] :
            (loaded[1][i].status = "done"
             /\ ~(op[1].status # None /\ op[1].target = loaded[1][i].id))
            => \A j \in DOMAIN local[1] :
                  local[1][j].id = loaded[1][i].id => local[1][j].status = "done"

\* an add option has given a done task a new blocker, and the task is still
\* done
C37_Witness ==
    /\ Computed(1) /\ op[1].kind = "update" /\ op[1].status = None
    /\ \E i \in DOMAIN loaded[1] :
          /\ loaded[1][i].status = "done"
          /\ loaded[1][i].blocked_by = <<>>
          /\ local[1][i].blocked_by # <<>>
          /\ local[1][i].status = "done"

\* task i of T is neither task k nor listed in task k's blocks or
\* blocked_by nor named in the request
Unrelated(T, k, i, named) ==
    /\ i # k
    /\ ~Contains(T[k].blocks, T[i].id)
    /\ ~Contains(T[k].blocked_by, T[i].id)
    /\ T[i].id \notin named

\* T2 holds every task of T that is unrelated to task k as it was, and the
\* tasks of T, all of them or all but task k, in their order
Frame(T, T2, k, named, deleted) ==
    /\ \A i \in DOMAIN T :
          Unrelated(T, k, i, named) => \E j \in DOMAIN T2 : T2[j] = T[i]
    /\ IdsOf(T2) = IF deleted THEN IdsOf(WithoutId(T, T[k].id)) ELSE IdsOf(T)

\* update <id> with one edge option naming one id
EdgeOptionArgs(which, q) == [NoArgs EXCEPT ![which] = <<q>>]

\* C38: run without concurrent writers, update and delete of task T change
\* only T and the tasks that share an edge with T (those named in the
\* request or listed in T's blocks or blocked_by); every other task's record
\* is persisted unchanged, and the relative order of the surviving tasks in
\* the store is preserved.
C38_Frame ==
    [][\A id \in Ids :
          /\ BothStored(id, id) /\ cmd_delete(1, id)
                => Frame(Stored, local'[1], IndexOf(Stored, id), {}, TRUE)
          /\ \A st \in Statuses :
                BothStored(id, id) /\ cmd_update(1, id, StatusOnlyArgs(st))
                    => Frame(Stored, local'[1], IndexOf(Stored, id), {}, FALSE)
          /\ \A which \in EdgeOptions : \A q \in Ids :
                BothStored(id, q) /\ cmd_update(1, id, EdgeOptionArgs(which, q))
                    => Frame(Stored, local'[1], IndexOf(Stored, id), {q}, FALSE)]_vars

\* task i depends on task j through at most n blocked_by entries
RECURSIVE DependsWithin(_, _, _, _)
DependsWithin(T, i, j, n) ==
    \/ BlockedBy(T, i, j)
    \/ n > 1 /\ \E m \in DOMAIN T : BlockedBy(T, i, m) /\ DependsWithin(T, m, j, n - 1)

Acyclic(T) == \A i \in DOMAIN T : ~DependsWithin(T, i, i, Len(T))

NoDangling(T) ==
    \A i \in DOMAIN T : \A n \in DOMAIN T[i].blocked_by :
        HasId(T, T[i].blocked_by[n])

AllDone(T) == \A i \in DOMAIN T : T[i].status = "done"

\* C39: whenever the collection is acyclic, has no dangling blocker ids and
\* contains at least one task that is not done, ready_set is non-empty; and
\* repeatedly marking some ready task done eventually makes every task done.
C39_Progress ==
    /\ []((Acyclic(Stored) /\ NoDangling(Stored) /\ ~AllDone(Stored))
            => ReadyTasks(Stored) # <<>>)
    /\ <>[](Len(Stored) = Len(file0) /\ AllDone(Stored))

\* three open tasks in a chain have been listed and marked done one by one
C39_Witness ==
    /\ pc[1] = "done" /\ op[1].kind = "update" /\ ncmds = 6
    /\ Len(Stored) = 3 /\ AllDone(Stored)
    /\ \A i \in DOMAIN file0 : file0[i].status = "open"
    /\ file0[3].blocked_by # <<>> /\ file0[2].blocked_by # <<>>

====
